---------------------------- MODULE Spec2Model ----------------------------
(***************************************************************************)
(* A state-machine model of the HTN planner of franruedaesq/htn-plan.      *)
(*                                                                         *)
(* planner.ts: createPlanner(config).plan() runs findFirstUnknownTask (a   *)
(* breadth-first reachability pre-check), then the recursive solve() (a    *)
(* depth-first search with backtracking over one shared, mutable plan      *)
(* accumulator), then classifies a failure against the top-level goals.    *)
(*                                                                         *)
(* The recursion of solve() is modelled by an explicit call stack: one     *)
(* frame per activation, one action per stretch of code between two        *)
(* recursive calls or returns.  The caller's functions (conditions and     *)
(* effects) are drawn from small catalogues of pure functions over a       *)
(* counter state, as the repository's own tests do.                        *)
(***************************************************************************)
EXTENDS Integers, Sequences, FiniteSets, TLC

(***************************************************************************)
(* Bounds of the model.                                                    *)
(***************************************************************************)
\* World states are the counters 0..MaxState.
MaxState == 1
\* Goal lists hold at most MaxGoals names.
MaxGoals == 2
\* planner.ts:13 sets the ceiling to 1000; the model runs the same code
\* with a small ceiling so that the ceiling is reached within the bounds.
MAX_RECURSION_DEPTH == 7

(***************************************************************************)
(* The caller's inputs: world states, conditions, effects, task names.     *)
(***************************************************************************)
States == 0..MaxState

\* condition: (state) => boolean.  The catalogue of predicates the model's
\* operators and methods use: (_s) => true, (s) => s.counter === 0,
\* (s) => s.counter > 0.
ConditionKinds == {"always", "zero", "pos"}

condition(c, s) ==
  CASE c = "always" -> TRUE
    [] c = "zero"   -> s = 0
    [] c = "pos"    -> s > 0

\* effect: (state) => state, returning a new value and leaving its input
\* alone: (s) => ({...s}), (s) => ({counter: min(s.counter + 1, MaxState)}),
\* (s) => ({counter: 0}).
EffectKinds == {"keep", "inc", "reset"}

effect(e, s) ==
  CASE e = "keep"  -> s
    [] e = "inc"   -> IF s < MaxState THEN s + 1 ELSE s
    [] e = "reset" -> 0

\* An Operator object.  id stands for the object's identity (its address):
\* two objects are the same object exactly when their ids are equal.
Operator(n, c, e, i) == [name |-> n, condition |-> c, effect |-> e, id |-> i]

\* A Method object.
Method(n, c, st) == [name |-> n, condition |-> c, subtasks |-> st]

\* A CompoundTask object.
CompoundTask(n, ms) == [name |-> n, methods |-> ms]

\* The operator tables of the model: "a" raises the counter; "b" tests it
\* and keeps or resets it.
OperatorTables ==
  { [n \in {"a", "b"} |->
       IF n = "a" THEN Operator("a", ca, "inc", 1)
                  ELSE Operator("b", cb, eb, 2)] :
    ca \in {"always"}, cb \in {"zero", "pos"}, eb \in {"keep", "reset"} }

\* The subtask lists of the first and of the second method of compound
\* task "T"; "x" is registered nowhere.
SubtaskLists1 ==
  { <<>>, <<"a">>, <<"a", "b">>, <<"U">>, <<"a", "U">>, <<"b", "x">> }
SubtaskLists2 == { <<>>, <<"a">>, <<"b">>, <<"U">> }

\* The method lists of compound task "T": one or two methods.
MethodListsT ==
  { <<Method("m1", c1, s1)>> : c1 \in {"always", "zero"}, s1 \in SubtaskLists1 }
  \cup
  { <<Method("m1", c1, s1), Method("m2", "always", s2)>> :
      c1 \in {"always", "zero"}, s1 \in SubtaskLists1 \ {<<>>},
      s2 \in SubtaskLists2 }

\* The method lists of compound task "U"; <<>> stands for "U is not
\* registered", which makes "U" an unknown name.
MethodListsU ==
  { <<>>, <<Method("m3", "always", <<"b">>)>>,
    <<Method("m3", "always", <<"T">>)>>,
    <<Method("m3", "pos", <<"x">>)>> }

CompoundTables ==
  { [n \in (IF mu = <<>> THEN {"T"} ELSE {"T", "U"}) |->
       IF n = "T" THEN CompoundTask("T", mt) ELSE CompoundTask("U", mu)] :
    mt \in MethodListsT, mu \in MethodListsU }

\* A Domain: { operators, compoundTasks }.
Domains ==
  { [operators |-> ot, compoundTasks |-> ct] :
    ot \in OperatorTables, ct \in CompoundTables }

\* The names a goal list may hold; "U" is an unknown name in the domains
\* that do not register it.
GoalNames == {"T", "U", "b"}

GoalLists == UNION { [1..k -> GoalNames] : k \in 0..MaxGoals }

\* The four optional callbacks of PlannerHooks.
AllHooks == {"onTaskExpand", "onMethodTry", "onBacktrack", "onOperatorApply"}

\* The hooks objects a planner is created with.
HookChoices == {AllHooks}

(***************************************************************************)
(* State.                                                                  *)
(***************************************************************************)
VARIABLES
  domain,        \* config.domain
  initialState,  \* config.initialState
  goals,         \* config.goals
  hooks,         \* the callbacks config.hooks provides
  pc,            \* where plan() is: "idle", "precheck", "solve", "done"
  visited,       \* findFirstUnknownTask: the visited set
  queue,         \* findFirstUnknownTask: the queue
  stack,         \* the activations of solve(), outermost first
  plan,          \* solve's shared plan accumulator
  ret,           \* the value a solve() activation has just returned
  result,        \* what plan() returned or threw
  prevResult,    \* what the previous plan() call on this planner returned
  prevCalls,     \* history: the calls the previous plan() call made
  trace,         \* the notifications the hooks received during this call
  calls,         \* the caller's functions invoked during this call, in order
  stamps,        \* history: the application number of each plan entry
  rejected,      \* history: the applications whose branch returned failure
  napply,        \* history: the number of effect applications so far
  nullReturns,   \* history: the number of solve() activations that returned null
  log,           \* history: notifications and calls of this call, in order
  registry,      \* a Domain registry: its three tables and their arrays
  returned,      \* what the last call on the registry returned or threw
  registered     \* history: the registration calls that returned, in order

config == <<domain, initialState, goals, hooks>>
history == <<trace, calls, stamps, rejected, napply, log,
            nullReturns>>
vars == <<domain, initialState, goals, hooks, pc, visited, queue, stack, plan,
          ret, result, prevResult, prevCalls, trace, calls, stamps, rejected,
          napply, log, nullReturns, registry, returned, registered>>
builder == <<registry, returned, registered>>

(***************************************************************************)
(* Values.                                                                 *)
(***************************************************************************)
\* What solve() returns; pending is history: how many tasks were pending in
\* the activation in which the failure arose that a null hands up.
NoReturn == [kind |-> "none", plan |-> <<>>, finalState |-> 0, pending |-> 0]
Null == [kind |-> "null", plan |-> <<>>, finalState |-> 0, pending |-> 0]
NullFrom(n) == [Null EXCEPT !.pending = n]
Solved(p, s) ==
  [kind |-> "solved", plan |-> p, finalState |-> s, pending |-> 0]

NoResult == [kind |-> "none", plan |-> <<>>, reason |-> "", failedTask |-> ""]
PlanningSuccess(p) ==
  [kind |-> "success", plan |-> p, reason |-> "", failedTask |-> ""]
PlanningFailure(r, t) ==
  [kind |-> "failure", plan |-> <<>>, reason |-> r, failedTask |-> t]
PlannerMaxDepthError ==
  [kind |-> "PlannerMaxDepthError", plan |-> <<>>, reason |-> "",
   failedTask |-> ""]

\* hasOwnTask(obj, key): key is an own property of the table.
hasOwnTask(obj, key) == key \in DOMAIN obj

\* An activation of solve(tasks, state, domain, plan, depth, hooks).
\*   at: "entry"   - called, nothing executed yet
\*       "opcall"  - in the operator branch, waiting for solve(rest, ...)
\*       "methods" - in the compound branch, at the head of the for loop
\*       "mcall"   - in the compound branch, waiting for solve(expanded, ...)
\*   mi: the index of the method the for loop is at.
\*   failed, planLen, held, stamp, goalsLeft are history: the methods of this
\*   activation whose search returned failure, the accumulator's length and
\*   contents at entry, the number of the application this activation made,
\*   and how many
\*   of the last names of tasks are top-level goals (the others are subtasks
\*   spliced in by method expansions): the caller's task list loses its head
\*   before the callee's is made from it.
Top == stack[Len(stack)]

Frame(ts, s, d, p) ==
  [at |-> "entry", tasks |-> ts, state |-> s, depth |-> d, mi |-> 1,
   failed |-> {}, planLen |-> Len(p), held |-> p, stamp |-> 0,
   goalsLeft |-> IF stack = <<>> THEN Len(ts)
                 ELSE IF Top.goalsLeft < Len(Top.tasks) THEN Top.goalsLeft
                 ELSE Len(Top.tasks) - 1]

Pop(st) == SubSeq(st, 1, Len(st) - 1)
SetTop(st, f) == [st EXCEPT ![Len(st)] = f]

CondCall(kind, n, s) == [fn |-> "condition", kind |-> kind, of |-> n, arg |-> s]
EffectCall(n, s) == [fn |-> "effect", kind |-> "operator", of |-> n, arg |-> s]


\* hooks?.onX?.(...): the notification reaches the hook when it is provided.
NotifyOn(tr, h, ev) == IF h \in hooks THEN Append(tr, ev) ELSE tr

\* The entries of log: a notification a hook received, or a call of one of
\* the caller's functions.
NoCall == [fn |-> "", kind |-> "", of |-> "", arg |-> 0]
HookEntry(ev) == [hook |-> ev, call |-> NoCall]
CallEntry(c) == [hook |-> <<>>, call |-> c]
LogOn(lg, h, ev) == IF h \in hooks THEN Append(lg, HookEntry(ev)) ELSE lg
LogCalls(lg, cs) == lg \o [i \in 1..Len(cs) |-> CallEntry(cs[i])]

\* plan.push(operator) on the accumulator (and on its history, stamps).
PlanPush(p, x) == Append(p, x)

\* A search that does not rewind the accumulator.
PlanPopMissing(p) == p

\* A search that rewinds by plan.shift().
PlanShift(p) == Tail(p)

\* plan.pop() on the accumulator (and on its history, stamps).
PlanPop(p) == SubSeq(p, 1, Len(p) - 1)

\* A planner that keeps one accumulator for all its plan() calls.
ReusedAccumulator == plan

\* The [] that plan() hands to solve() as its accumulator.
NewAccumulator == <<>>

\* The subtasks findFirstUnknownTask pushes for one compound task: every
\* subtask of every method, in method order then subtask order.
\* A pre-check that looks at the first method of a compound task only.
FirstMethodSubtasks(ms) == IF ms = <<>> THEN <<>> ELSE Head(ms).subtasks

RECURSIVE AllSubtasks(_)
AllSubtasks(ms) ==
  IF ms = <<>> THEN <<>> ELSE Head(ms).subtasks \o AllSubtasks(Tail(ms))

(***************************************************************************)
(* The tables of a Domain registry (domain.ts) are plain JavaScript        *)
(* objects.  Such an object has own properties, kept in the order they     *)
(* were created, and a prototype it inherits further properties from:      *)
(* Object.prototype for {}, until an assignment to the key "__proto__",    *)
(* which creates no own property but makes the assigned object the         *)
(* prototype.  Values are tagged so that any two of them can be compared.  *)
(***************************************************************************)
Undefined == [t |-> "undefined"]
ObjectPrototype == [t |-> "Object.prototype"]
OperatorValue(op) == [t |-> "operator", operator |-> op]
MethodValue(m) == [t |-> "method", method |-> m]
ArrayRef(n) == [t |-> "array", at |-> n]
Entry(name, methods) == [t |-> "entry", name |-> name, methods |-> methods]
Member(of, key) == [t |-> "member", of |-> of, key |-> key]

\* The members every plain object inherits (of which the model keeps two),
\* and the properties of an operator object.
ObjectPrototypeKeys == {"constructor", "toString"}
OperatorKeys == {"name", "condition", "effect"}

\* {}
EmptyObject ==
  [own |-> [k \in {} |-> Undefined], keys |-> <<>>, proto |-> ObjectPrototype]

\* Object.prototype.hasOwnProperty.call(obj, key)
hasOwnProperty(obj, key) == key \in DOMAIN obj.own

\* obj[key], read: an own property, else the prototype itself under
\* "__proto__", else what the prototype chain provides, else undefined.
GetProperty(obj, key) ==
  IF key \in DOMAIN obj.own THEN obj.own[key]
  ELSE IF key = "__proto__" THEN obj.proto
  ELSE IF obj.proto.t = "operator" /\ key \in OperatorKeys
    THEN Member(obj.proto.operator.name, key)
  ELSE IF key \in ObjectPrototypeKeys THEN Member("Object.prototype", key)
  ELSE Undefined

\* obj[key] = value, for a value that is an object.
SetProperty(obj, key, value) ==
  IF key = "__proto__" THEN [obj EXCEPT !.proto = value]
  ELSE IF key \in DOMAIN obj.own THEN [obj EXCEPT !.own[key] = value]
  ELSE [obj EXCEPT !.own = (key :> value) @@ @, !.keys = Append(@, key)]

\* The names among the model's that are canonical array indices, with their
\* numeric values: Object.keys lists such keys first, in ascending order.
ArrayIndex == ("1" :> 1) @@ ("2" :> 2)

RECURSIVE Ascending(_)
Ascending(S) ==
  IF S = {} THEN <<>>
  ELSE LET m == CHOOSE x \in S : \A y \in S : ArrayIndex[x] <= ArrayIndex[y]
       IN <<m>> \o Ascending(S \ {m})

\* Object.keys(obj): integer keys ascending, then the other own keys in the
\* order they were created.
ObjectKeys(obj) ==
  Ascending({k \in DOMAIN obj.own : k \in DOMAIN ArrayIndex})
    \o SelectSeq(obj.keys, LAMBDA k : k \notin DOMAIN ArrayIndex)

\* new Domain(): three empty tables (and no array yet).
NewDomain ==
  [operators |-> EmptyObject, compoundTasks |-> EmptyObject,
   _compoundMethods |-> EmptyObject, arrays |-> <<>>]

\* What a call on the registry returned or threw.
Outcome(call, arg, kind, value, unresolvedTask) ==
  [call |-> call, arg |-> arg, kind |-> kind, value |-> value,
   unresolvedTask |-> unresolvedTask]
NoOutcome == Outcome("", "", "none", Undefined, "")

\* No registry is in use.
NoBuilder ==
  /\ registry = NewDomain
  /\ returned = NoOutcome
  /\ registered = <<>>

(***************************************************************************)
(* Init: a planner has been created over some domain, initial state, goal  *)
(* list and hooks; plan() has not been called.                             *)
(***************************************************************************)
Init ==
  /\ domain \in Domains
  /\ initialState \in States
  /\ goals \in GoalLists
  /\ hooks \in HookChoices
  /\ pc = "idle"
  /\ visited = {}
  /\ queue = <<>>
  /\ stack = <<>>
  /\ plan = <<>>
  /\ ret = NoReturn
  /\ result = NoResult
  /\ prevResult = NoResult
  /\ prevCalls = <<>>
  /\ trace = <<>>
  /\ calls = <<>>
  /\ stamps = <<>>
  /\ rejected = {}
  /\ napply = 0
  /\ nullReturns = 0
  /\ log = <<>>
  /\ NoBuilder

(***************************************************************************)
(* plan(), lines 161-168: the call, up to the start of the pre-check's     *)
(* loop: const queue = [...roots], const visited = new Set().  A planner   *)
(* object may be asked to plan again once a call is over.  The previous    *)
(* call's accumulator is garbage by then; the model leaves it in place     *)
(* until line 177 creates the new one.                                     *)
(***************************************************************************)
PlanCall ==
  /\ pc \in {"idle", "done"}
  /\ pc' = "precheck"
  /\ visited' = {}
  /\ queue' = goals
  /\ stack' = <<>>
  /\ ret' = NoReturn
  /\ result' = NoResult
  /\ prevResult' = result
  /\ prevCalls' = calls
  /\ trace' = <<>>
  /\ calls' = <<>>
  /\ rejected' = {}
  /\ napply' = 0
  /\ nullReturns' = 0
  /\ log' = <<>>
  /\ UNCHANGED <<plan, stamps>>
  /\ UNCHANGED config
  /\ UNCHANGED builder

(***************************************************************************)
(* findFirstUnknownTask, lines 41-58: one iteration of the while loop.     *)
(***************************************************************************)
\* A pre-check that puts the subtasks in front: a depth-first traversal.
EnqueueInFront(q, ms) == AllSubtasks(ms) \o q

\* for (method of methods) for (subtask of method.subtasks) queue.push(subtask)
Enqueue(q, ms) == q \o AllSubtasks(ms)

\* The subtasks of the methods whose condition holds in state s.
RECURSIVE ApplicableSubtasks(_, _)
ApplicableSubtasks(ms, s) ==
  IF ms = <<>> THEN <<>>
  ELSE (IF condition(Head(ms).condition, s) THEN Head(ms).subtasks ELSE <<>>)
       \o ApplicableSubtasks(Tail(ms), s)

\* A pre-check that follows only the methods applicable in the initial
\* state, and so evaluates their conditions.
PreCheckStepSemantic ==
  /\ pc = "precheck"
  /\ queue # <<>>
  /\ LET task == Head(queue)
         rest == Tail(queue)
     IN IF task \in visited
          THEN /\ queue' = rest
               /\ UNCHANGED <<visited, pc, result, calls>>
          ELSE /\ visited' = visited \cup {task}
               /\ IF hasOwnTask(domain.operators, task)
                    THEN /\ queue' = rest
                         /\ UNCHANGED <<pc, result, calls>>
                    ELSE IF hasOwnTask(domain.compoundTasks, task)
                      THEN LET ms == domain.compoundTasks[task].methods IN
                           /\ queue' = rest \o
                                         ApplicableSubtasks(ms, initialState)
                           /\ calls' = calls \o
                                [i \in 1..Len(ms) |->
                                   CondCall("method", ms[i].name, initialState)]
                           /\ UNCHANGED <<pc, result>>
                      ELSE /\ queue' = rest
                           /\ result' = PlanningFailure("UNKNOWN_TASK", task)
                           /\ pc' = "done"
                           /\ UNCHANGED calls
  /\ log' = LogCalls(log, SubSeq(calls', Len(calls) + 1, Len(calls')))
  /\ UNCHANGED <<stack, plan, ret, prevResult, prevCalls, trace, stamps,
                 rejected, napply, nullReturns>>
  /\ UNCHANGED config
  /\ UNCHANGED builder

\* A pre-check without the visited set: every dequeued name is looked up
\* and expanded again.
PreCheckStepRevisiting ==
  /\ pc = "precheck"
  /\ queue # <<>>
  /\ LET task == Head(queue)
         rest == Tail(queue)
     IN /\ visited' = visited \cup {task}
        /\ IF hasOwnTask(domain.operators, task)
             THEN /\ queue' = rest
                  /\ UNCHANGED <<pc, result>>
             ELSE IF hasOwnTask(domain.compoundTasks, task)
               THEN /\ queue' = Enqueue(rest,
                                   domain.compoundTasks[task].methods)
                    /\ UNCHANGED <<pc, result>>
               ELSE /\ queue' = rest
                    /\ result' = PlanningFailure("UNKNOWN_TASK", task)
                    /\ pc' = "done"
  /\ UNCHANGED <<stack, plan, ret, prevResult, prevCalls>>
  /\ UNCHANGED history
  /\ UNCHANGED config
  /\ UNCHANGED builder

PreCheckStep ==
  /\ pc = "precheck"
  /\ queue # <<>>
  /\ LET task == Head(queue)
         rest == Tail(queue)
     IN IF task \in visited
          THEN \* line 43: continue
               /\ queue' = rest
               /\ UNCHANGED <<visited, pc, result>>
          ELSE /\ visited' = visited \cup {task}
               /\ IF hasOwnTask(domain.operators, task)
                    THEN \* line 46: an operator is a leaf
                         /\ queue' = rest
                         /\ UNCHANGED <<pc, result>>
                    ELSE IF hasOwnTask(domain.compoundTasks, task)
                      THEN \* lines 48-54
                           /\ queue' = Enqueue(rest,
                                         domain.compoundTasks[task].methods)
                           /\ UNCHANGED <<pc, result>>
                      ELSE \* line 57: return task; plan() lines 169-174
                           /\ queue' = rest
                           /\ result' = PlanningFailure("UNKNOWN_TASK", task)
                           /\ pc' = "done"
  /\ UNCHANGED <<stack, plan, ret, prevResult, prevCalls>>
  /\ UNCHANGED history
  /\ UNCHANGED config
  /\ UNCHANGED builder

(***************************************************************************)
(* findFirstUnknownTask line 59 returns null; plan() line 177 calls        *)
(* solve([...goals], initialState, domain, [], 0, config.hooks).           *)
(***************************************************************************)
\* A plan() that starts the search one level down: solve(..., [], 1, hooks).
PreCheckDoneDepthOne ==
  /\ pc = "precheck"
  /\ queue = <<>>
  /\ pc' = "solve"
  /\ plan' = NewAccumulator
  /\ stamps' = <<>>
  /\ stack' = <<Frame(goals, initialState, 1, plan')>>
  /\ UNCHANGED <<visited, queue, ret, result, prevResult, prevCalls, trace,
                 calls, rejected, napply, log, nullReturns>>
  /\ UNCHANGED config
  /\ UNCHANGED builder

\* A plan() that hands the goals to the search last goal first.
PreCheckDoneReversed ==
  /\ pc = "precheck"
  /\ queue = <<>>
  /\ pc' = "solve"
  /\ plan' = NewAccumulator
  /\ stamps' = <<>>
  /\ stack' = <<Frame([i \in 1..Len(goals) |-> goals[Len(goals) + 1 - i]],
                      initialState, 0, plan')>>
  /\ UNCHANGED <<visited, queue, ret, result, prevResult, prevCalls, trace,
                 calls, rejected, napply, log, nullReturns>>
  /\ UNCHANGED config
  /\ UNCHANGED builder

PreCheckDone ==
  /\ pc = "precheck"
  /\ queue = <<>>
  /\ pc' = "solve"
  /\ plan' = NewAccumulator
  /\ stamps' = <<>>
  /\ stack' = <<Frame(goals, initialState, 0, plan')>>
  /\ UNCHANGED <<visited, queue, ret, result, prevResult, prevCalls, trace,
                 calls, rejected, napply, log, nullReturns>>
  /\ UNCHANGED config
  /\ UNCHANGED builder

(***************************************************************************)
(* solve(), lines 81-141.  SolveEntry runs a fresh activation up to its    *)
(* first return or recursive call; its branches follow, each naming what   *)
(* it does to every variable solve() can reach.                            *)
(***************************************************************************)
\* const [current, ...rest] = tasks
Current(f) == Head(f.tasks)
Rest(f) == Tail(f.tasks)

\* hooks?.onTaskExpand?.(current, depth), line 92
TaskExpanded(f) ==
  NotifyOn(trace, "onTaskExpand", <<"onTaskExpand", Current(f), f.depth>>)

LogTaskExpanded(f) ==
  LogOn(log, "onTaskExpand", <<"onTaskExpand", Current(f), f.depth>>)

\* A search that treats the ceiling as a dead end of the branch: return null.
DepthAsBranchFailure ==
  /\ ret' = NullFrom(Len(Top.tasks))
  /\ stack' = Pop(stack)
  /\ nullReturns' = nullReturns + 1
  /\ UNCHANGED <<plan, pc, result>>
  /\ UNCHANGED <<trace, calls, stamps, rejected, napply, log>>
  /\ UNCHANGED config
  /\ UNCHANGED builder

\* lines 81-83: throw new PlannerMaxDepthError; every activation is unwound
\* and plan() ends with the error.
ThrowMaxDepth ==
  /\ result' = PlannerMaxDepthError
  /\ pc' = "done"
  /\ stack' = <<>>
  /\ UNCHANGED <<plan, ret>>
  /\ UNCHANGED history
  /\ UNCHANGED config
  /\ UNCHANGED builder

\* A base case tested after the dequeue and its notification.
BaseCaseAfterExpand ==
  /\ ret' = Solved(plan, Top.state)
  /\ stack' = Pop(stack)
  /\ trace' = NotifyOn(trace, "onTaskExpand",
                       <<"onTaskExpand", "undefined", Top.depth>>)
  /\ log' = LogOn(log, "onTaskExpand",
                   <<"onTaskExpand", "undefined", Top.depth>>)
  /\ UNCHANGED <<plan, pc, result, calls, stamps, rejected, napply, nullReturns>>
  /\ UNCHANGED config
  /\ UNCHANGED builder

\* A base case that takes an empty plan for a failure:
\* return plan.length > 0 ? { plan: [...plan], finalState: state } : null
BaseCaseEmptyPlanFails ==
  /\ ret' = IF plan # <<>> THEN Solved(plan, Top.state)
            ELSE NullFrom(Len(Top.tasks))
  /\ stack' = Pop(stack)
  /\ nullReturns' = IF plan # <<>> THEN nullReturns ELSE nullReturns + 1
  /\ UNCHANGED <<plan, pc, result>>
  /\ UNCHANGED <<trace, calls, stamps, rejected, napply, log>>
  /\ UNCHANGED config
  /\ UNCHANGED builder

\* lines 86-88: return { plan: [...plan], finalState: state }
BaseCase ==
  /\ ret' = Solved(plan, Top.state)
  /\ stack' = Pop(stack)
  /\ UNCHANGED <<plan, pc, result>>
  /\ UNCHANGED history
  /\ UNCHANGED config
  /\ UNCHANGED builder

\* A search that notifies onTaskExpand inside the branches, after the
\* operator's condition has been evaluated.
OperatorFailNotifiedLate ==
  /\ ret' = NullFrom(Len(Top.tasks))
  /\ stack' = Pop(stack)
  /\ trace' = TaskExpanded(Top)
  /\ calls' = Append(calls, CondCall("operator", Current(Top), Top.state))
  /\ log' = LogOn(LogCalls(log,
                     <<CondCall("operator", Current(Top), Top.state)>>),
                   "onTaskExpand", <<"onTaskExpand", Current(Top), Top.depth>>)
  /\ UNCHANGED <<plan, pc, result, stamps, rejected, napply>>
  /\ nullReturns' = nullReturns + 1
  /\ UNCHANGED config
  /\ UNCHANGED builder

\* lines 98-101: the operator's condition is false: return null
OperatorFail ==
  /\ ret' = NullFrom(Len(Top.tasks))
  /\ stack' = Pop(stack)
  /\ trace' = TaskExpanded(Top)
  /\ calls' = Append(calls, CondCall("operator", Current(Top), Top.state))
  /\ log' = LogCalls(LogTaskExpanded(Top),
                      <<CondCall("operator", Current(Top), Top.state)>>)
  /\ UNCHANGED <<plan, pc, result, stamps, rejected, napply>>
  /\ nullReturns' = nullReturns + 1
  /\ UNCHANGED config
  /\ UNCHANGED builder

\* A search that notifies onOperatorApply with the state it was given in
\* both places: hooks?.onOperatorApply?.(current, state, state).
OperatorApplyStaleNotice ==
  LET f == Top
      operator == domain.operators[Current(f)]
      nextState == effect(operator.effect, f.state)
  IN
  /\ calls' = calls \o <<CondCall("operator", Current(f), f.state),
                         EffectCall(Current(f), f.state)>>
  /\ trace' = NotifyOn(TaskExpanded(f), "onOperatorApply",
                 <<"onOperatorApply", Current(f), f.state, f.state>>)
  /\ log' = LogOn(LogCalls(LogTaskExpanded(f),
                            <<CondCall("operator", Current(f), f.state),
                              EffectCall(Current(f), f.state)>>),
                   "onOperatorApply",
                   <<"onOperatorApply", Current(f), f.state, f.state>>)
  /\ plan' = PlanPush(plan, operator)
  /\ stamps' = PlanPush(stamps, napply + 1)
  /\ napply' = napply + 1
  /\ UNCHANGED nullReturns
  /\ stack' = Append(
       SetTop(stack, [f EXCEPT !.at = "opcall", !.stamp = napply + 1]),
       Frame(Rest(f), nextState, f.depth + 1, plan'))
  /\ UNCHANGED <<ret, pc, result, rejected>>
  /\ UNCHANGED config
  /\ UNCHANGED builder

\* A search that pushes a copy of the operator: plan.push({...operator}).
OperatorApplyCopy ==
  LET f == Top
      operator == domain.operators[Current(f)]
      nextState == effect(operator.effect, f.state)
  IN
  /\ calls' = calls \o <<CondCall("operator", Current(f), f.state),
                         EffectCall(Current(f), f.state)>>
  /\ trace' = NotifyOn(TaskExpanded(f), "onOperatorApply",
                 <<"onOperatorApply", Current(f), f.state, nextState>>)
  /\ log' = LogOn(LogCalls(LogTaskExpanded(f),
                            <<CondCall("operator", Current(f), f.state),
                              EffectCall(Current(f), f.state)>>),
                   "onOperatorApply",
                   <<"onOperatorApply", Current(f), f.state, nextState>>)
  /\ plan' = PlanPush(plan, [operator EXCEPT !.id = 0])
  /\ stamps' = PlanPush(stamps, napply + 1)
  /\ napply' = napply + 1
  /\ UNCHANGED nullReturns
  /\ stack' = Append(
       SetTop(stack, [f EXCEPT !.at = "opcall", !.stamp = napply + 1]),
       Frame(Rest(f), nextState, f.depth + 1, plan'))
  /\ UNCHANGED <<ret, pc, result, rejected>>
  /\ UNCHANGED config
  /\ UNCHANGED builder

\* A search that recurses on the state it was given: solve(rest, state, ...).
NextStateStale(operator, state) == state

\* line 103: const nextState = operator.effect(state)
NextState(operator, state) == effect(operator.effect, state)

\* lines 103-106: apply the effect, notify, push, recurse on the rest
OperatorApply ==
  LET f == Top
      operator == domain.operators[Current(f)]
      nextState == NextState(operator, f.state)
  IN
  /\ calls' = calls \o <<CondCall("operator", Current(f), f.state),
                         EffectCall(Current(f), f.state)>>
  /\ trace' = NotifyOn(TaskExpanded(f), "onOperatorApply",
                 <<"onOperatorApply", Current(f), f.state, nextState>>)
  /\ log' = LogOn(LogCalls(LogTaskExpanded(f),
                            <<CondCall("operator", Current(f), f.state),
                              EffectCall(Current(f), f.state)>>),
                   "onOperatorApply",
                   <<"onOperatorApply", Current(f), f.state, nextState>>)
  /\ plan' = PlanPush(plan, operator)
  /\ stamps' = PlanPush(stamps, napply + 1)
  /\ napply' = napply + 1
  /\ UNCHANGED nullReturns
  /\ stack' = Append(
       SetTop(stack, [f EXCEPT !.at = "opcall", !.stamp = napply + 1]),
       Frame(Rest(f), nextState, f.depth + 1, plan'))
  /\ UNCHANGED <<ret, pc, result, rejected>>
  /\ UNCHANGED config
  /\ UNCHANGED builder

\* A loop over the methods that starts at the second one.
CompoundEnterAtSecond ==
  /\ stack' = SetTop(stack, [Top EXCEPT !.at = "methods", !.mi = 2])
  /\ trace' = TaskExpanded(Top)
  /\ log' = LogTaskExpanded(Top)
  /\ UNCHANGED <<plan, ret, pc, result, calls, stamps, rejected, napply, nullReturns>>
  /\ UNCHANGED config
  /\ UNCHANGED builder

\* lines 116-119: the task is compound: enter the for loop over its methods
CompoundEnter ==
  /\ stack' = SetTop(stack, [Top EXCEPT !.at = "methods", !.mi = 1])
  /\ trace' = TaskExpanded(Top)
  /\ log' = LogTaskExpanded(Top)
  /\ UNCHANGED <<plan, ret, pc, result, calls, stamps, rejected, napply, nullReturns>>
  /\ UNCHANGED config
  /\ UNCHANGED builder

\* line 141: neither an operator nor a compound task: return null
UnknownReturn ==
  /\ ret' = NullFrom(Len(Top.tasks))
  /\ stack' = Pop(stack)
  /\ trace' = TaskExpanded(Top)
  /\ log' = LogTaskExpanded(Top)
  /\ UNCHANGED <<plan, pc, result, calls, stamps, rejected, napply>>
  /\ nullReturns' = nullReturns + 1
  /\ UNCHANGED config
  /\ UNCHANGED builder

\* A solve() that tests the empty queue before the depth.
\* A solve() without the depth guard of lines 81-83.
SolveEntryNoCeiling ==
  /\ pc = "solve"
  /\ stack # <<>>
  /\ Top.at = "entry"
  /\ ret.kind = "none"
  /\ IF Top.tasks = <<>> THEN BaseCase
     ELSE IF hasOwnTask(domain.operators, Current(Top))
       THEN IF ~condition(domain.operators[Current(Top)].condition, Top.state)
              THEN OperatorFail
              ELSE OperatorApply
     ELSE IF hasOwnTask(domain.compoundTasks, Current(Top)) THEN CompoundEnter
     ELSE UnknownReturn
  /\ UNCHANGED <<visited, queue, prevResult, prevCalls>>

SolveEntryBaseCaseFirst ==
  /\ pc = "solve"
  /\ stack # <<>>
  /\ Top.at = "entry"
  /\ ret.kind = "none"
  /\ IF Top.tasks = <<>> THEN BaseCase
     ELSE IF Top.depth > MAX_RECURSION_DEPTH THEN ThrowMaxDepth
     ELSE IF hasOwnTask(domain.operators, Current(Top))
       THEN IF ~condition(domain.operators[Current(Top)].condition, Top.state)
              THEN OperatorFail
              ELSE OperatorApply
     ELSE IF hasOwnTask(domain.compoundTasks, Current(Top)) THEN CompoundEnter
     ELSE UnknownReturn
  /\ UNCHANGED <<visited, queue, prevResult, prevCalls>>

SolveEntry ==
  /\ pc = "solve"
  /\ stack # <<>>
  /\ Top.at = "entry"
  /\ ret.kind = "none"
  /\ IF Top.depth > MAX_RECURSION_DEPTH THEN ThrowMaxDepth
     ELSE IF Top.tasks = <<>> THEN BaseCase
     ELSE IF hasOwnTask(domain.operators, Current(Top))
       THEN IF ~condition(domain.operators[Current(Top)].condition, Top.state)
              THEN OperatorFail
              ELSE OperatorApply
     ELSE IF hasOwnTask(domain.compoundTasks, Current(Top)) THEN CompoundEnter
     ELSE UnknownReturn
  /\ UNCHANGED <<visited, queue, prevResult, prevCalls>>

(***************************************************************************)
(* solve(), lines 119-128 and 137: the head of the for loop over the       *)
(* compound task's methods.                                                *)
(***************************************************************************)
\* The methods of the compound task activation f is expanding.
Methods(f) == domain.compoundTasks[Current(f)].methods

\* A search that queues the subtasks behind the rest: [...rest, ...subtasks].
ExpandedBehind(method, rest) == rest \o method.subtasks

\* line 127: const expanded = [...method.subtasks, ...rest]
Expanded(method, rest) == method.subtasks \o rest

\* line 137: all methods exhausted: return null
MethodsExhausted ==
  /\ ret' = NullFrom(Len(Top.tasks))
  /\ stack' = Pop(stack)
  /\ nullReturns' = nullReturns + 1
  /\ UNCHANGED <<plan, pc, result>>
  /\ UNCHANGED <<trace, calls, stamps, rejected, napply, log>>
  /\ UNCHANGED config
  /\ UNCHANGED builder

\* A loop that notifies onMethodTry for every method it looks at, before
\* it tests the method's condition.
MethodSkipNotified ==
  LET f == Top
      method == Methods(f)[f.mi]
  IN
  /\ calls' = Append(calls, CondCall("method", method.name, f.state))
  /\ trace' = NotifyOn(trace, "onMethodTry",
                 <<"onMethodTry", Current(f), method.name, f.depth>>)
  /\ log' = LogCalls(LogOn(log, "onMethodTry",
                        <<"onMethodTry", Current(f), method.name, f.depth>>),
                      <<CondCall("method", method.name, f.state)>>)
  /\ stack' = SetTop(stack, [f EXCEPT !.mi = f.mi + 1])
  /\ UNCHANGED <<plan, ret, pc, result, stamps, rejected, napply, nullReturns>>
  /\ UNCHANGED config
  /\ UNCHANGED builder

\* lines 120-122: the method's condition is false: continue
MethodSkip ==
  LET f == Top
      method == Methods(f)[f.mi]
  IN
  /\ calls' = Append(calls, CondCall("method", method.name, f.state))
  /\ log' = LogCalls(log, <<CondCall("method", method.name, f.state)>>)
  /\ stack' = SetTop(stack, [f EXCEPT !.mi = f.mi + 1])
  /\ UNCHANGED <<plan, ret, pc, result, trace, stamps, rejected, napply, nullReturns>>
  /\ UNCHANGED config
  /\ UNCHANGED builder

\* A search that splices in place: method.subtasks.push(...rest), which
\* writes into the domain's method.
MethodTryInPlace ==
  LET f == Top
      method == Methods(f)[f.mi]
  IN
  /\ calls' = Append(calls, CondCall("method", method.name, f.state))
  /\ trace' = NotifyOn(trace, "onMethodTry",
                 <<"onMethodTry", Current(f), method.name, f.depth>>)
  /\ log' = LogOn(LogCalls(log, <<CondCall("method", method.name, f.state)>>),
                   "onMethodTry",
                   <<"onMethodTry", Current(f), method.name, f.depth>>)
  /\ stack' = Append(
       SetTop(stack, [f EXCEPT !.at = "mcall"]),
       Frame(method.subtasks \o Rest(f), f.state, f.depth + 1, plan))
  /\ domain' = [domain EXCEPT
                  !.compoundTasks[Current(f)].methods[f.mi].subtasks =
                     method.subtasks \o Rest(f)]
  /\ UNCHANGED <<plan, ret, pc, result, stamps, rejected, napply, nullReturns>>
  /\ UNCHANGED <<initialState, goals, hooks>>
  /\ UNCHANGED builder

\* A search whose depth counts operator applications only:
\* solve(expanded, state, domain, plan, depth, hooks).
MethodTrySameDepth ==
  LET f == Top
      method == Methods(f)[f.mi]
  IN
  /\ calls' = Append(calls, CondCall("method", method.name, f.state))
  /\ trace' = NotifyOn(trace, "onMethodTry",
                 <<"onMethodTry", Current(f), method.name, f.depth>>)
  /\ log' = LogOn(LogCalls(log, <<CondCall("method", method.name, f.state)>>),
                   "onMethodTry",
                   <<"onMethodTry", Current(f), method.name, f.depth>>)
  /\ stack' = Append(
       SetTop(stack, [f EXCEPT !.at = "mcall"]),
       Frame(Expanded(method, Rest(f)), f.state, f.depth, plan))
  /\ UNCHANGED <<plan, ret, pc, result, stamps, rejected, napply, nullReturns>>
  /\ UNCHANGED config
  /\ UNCHANGED builder

\* A search that starts a method's subtasks from the planner's initial
\* state: solve(expanded, initialState, ...).
MethodTryFromInitialState ==
  LET f == Top
      method == Methods(f)[f.mi]
  IN
  /\ calls' = Append(calls, CondCall("method", method.name, f.state))
  /\ trace' = NotifyOn(trace, "onMethodTry",
                 <<"onMethodTry", Current(f), method.name, f.depth>>)
  /\ log' = LogOn(LogCalls(log, <<CondCall("method", method.name, f.state)>>),
                   "onMethodTry",
                   <<"onMethodTry", Current(f), method.name, f.depth>>)
  /\ stack' = Append(
       SetTop(stack, [f EXCEPT !.at = "mcall"]),
       Frame(Expanded(method, Rest(f)), initialState, f.depth + 1, plan))
  /\ UNCHANGED <<plan, ret, pc, result, stamps, rejected, napply, nullReturns>>
  /\ UNCHANGED config
  /\ UNCHANGED builder

\* lines 124-128: notify onMethodTry, splice the subtasks in front of the
\* rest and recurse with the same state
MethodTry ==
  LET f == Top
      method == Methods(f)[f.mi]
  IN
  /\ calls' = Append(calls, CondCall("method", method.name, f.state))
  /\ trace' = NotifyOn(trace, "onMethodTry",
                 <<"onMethodTry", Current(f), method.name, f.depth>>)
  /\ log' = LogOn(LogCalls(log, <<CondCall("method", method.name, f.state)>>),
                   "onMethodTry",
                   <<"onMethodTry", Current(f), method.name, f.depth>>)
  /\ stack' = Append(
       SetTop(stack, [f EXCEPT !.at = "mcall"]),
       Frame(Expanded(method, Rest(f)), f.state, f.depth + 1, plan))
  /\ UNCHANGED <<plan, ret, pc, result, stamps, rejected, napply, nullReturns>>
  /\ UNCHANGED config
  /\ UNCHANGED builder

MethodLoop ==
  /\ pc = "solve"
  /\ stack # <<>>
  /\ Top.at = "methods"
  /\ ret.kind = "none"
  /\ IF Top.mi > Len(Methods(Top)) THEN MethodsExhausted
     ELSE IF ~condition(Methods(Top)[Top.mi].condition, Top.state)
       THEN MethodSkip
       ELSE MethodTry
  /\ UNCHANGED <<visited, queue, prevResult, prevCalls>>

(***************************************************************************)
(* solve(), lines 106-112: the recursive call of the operator branch has   *)
(* returned.                                                               *)
(***************************************************************************)
\* lines 107-109 and 129-131: if (result !== null) return result
PassResult ==
  /\ stack' = Pop(stack)
  /\ UNCHANGED <<plan, ret, pc, result>>
  /\ UNCHANGED history
  /\ UNCHANGED config
  /\ UNCHANGED builder

\* lines 111-112: plan.pop(); return null
Rewind ==
  /\ plan' = PlanPop(plan)
  /\ stamps' = PlanPop(stamps)
  /\ rejected' = rejected \cup {Top.stamp}
  /\ stack' = Pop(stack)
  /\ ret' = NullFrom(ret.pending)
  /\ UNCHANGED <<pc, result, trace, calls, napply, log>>
  /\ nullReturns' = nullReturns + 1
  /\ UNCHANGED config
  /\ UNCHANGED builder

OperatorReturn ==
  /\ pc = "solve"
  /\ stack # <<>>
  /\ Top.at = "opcall"
  /\ ret.kind # "none"
  /\ IF ret.kind = "solved" THEN PassResult ELSE Rewind
  /\ UNCHANGED <<visited, queue, prevResult, prevCalls>>

(***************************************************************************)
(* solve(), lines 128-134: the recursive call of a tried method has        *)
(* returned.                                                               *)
(***************************************************************************)
\* A search that notifies onBacktrack only when another method is left to
\* try, not when the compound task is about to fail.
BacktrackBeforeNextOnly ==
  LET f == Top
      method == Methods(f)[f.mi]
      ev == <<"onBacktrack", Current(f), method.name, f.depth>>
  IN
  /\ trace' = IF f.mi < Len(Methods(f)) THEN NotifyOn(trace, "onBacktrack", ev)
               ELSE trace
  /\ log' = IF f.mi < Len(Methods(f)) THEN LogOn(log, "onBacktrack", ev)
             ELSE log
  /\ stack' = SetTop(stack, [f EXCEPT !.at = "methods", !.mi = f.mi + 1,
                                      !.failed = f.failed \cup {f.mi}])
  /\ ret' = NoReturn
  /\ UNCHANGED <<plan, pc, result, calls, stamps, rejected, napply,
                 nullReturns>>
  /\ UNCHANGED config
  /\ UNCHANGED builder

\* A search that calls hooks.onBacktrack(...) without the optional chaining:
\* a TypeError when the hook is not provided.
BacktrackUnguarded ==
  LET f == Top
      method == Methods(f)[f.mi]
  IN
  IF "onBacktrack" \in hooks
    THEN /\ trace' = Append(trace,
                        <<"onBacktrack", Current(f), method.name, f.depth>>)
         /\ log' = Append(log, HookEntry(
                        <<"onBacktrack", Current(f), method.name, f.depth>>))
         /\ stack' = SetTop(stack, [f EXCEPT !.at = "methods", !.mi = f.mi + 1,
                                             !.failed = f.failed \cup {f.mi}])
         /\ ret' = NoReturn
         /\ UNCHANGED <<plan, pc, result, calls, stamps, rejected, napply, nullReturns>>
         /\ UNCHANGED config
         /\ UNCHANGED builder
    ELSE /\ result' = [PlannerMaxDepthError EXCEPT !.kind = "TypeError"]
         /\ pc' = "done"
         /\ stack' = <<>>
         /\ UNCHANGED <<plan, ret>>
         /\ UNCHANGED history
         /\ UNCHANGED config
         /\ UNCHANGED builder

\* A search that keeps a method once its own subtasks have succeeded: a
\* failure of a task that followed the compound task fails the compound
\* task's activation.
BacktrackOwnSubtasksOnly ==
  LET f == Top
      method == Methods(f)[f.mi]
  IN
  IF ret.pending <= Len(Rest(f))
    THEN /\ stack' = Pop(stack)
         /\ ret' = NullFrom(ret.pending)
         /\ nullReturns' = nullReturns + 1
         /\ UNCHANGED <<plan, pc, result, calls, stamps, rejected, napply,
                        trace, log>>
         /\ UNCHANGED config
         /\ UNCHANGED builder
    ELSE /\ trace' = NotifyOn(trace, "onBacktrack",
                        <<"onBacktrack", Current(f), method.name, f.depth>>)
         /\ log' = LogOn(log, "onBacktrack",
                          <<"onBacktrack", Current(f), method.name, f.depth>>)
         /\ stack' = SetTop(stack, [f EXCEPT !.at = "methods",
                                             !.mi = f.mi + 1,
                                             !.failed = f.failed \cup {f.mi}])
         /\ ret' = NoReturn
         /\ UNCHANGED <<plan, pc, result, calls, stamps, rejected, napply,
                        nullReturns>>
         /\ UNCHANGED config
         /\ UNCHANGED builder

\* line 133 and the loop's step: notify onBacktrack, go on to the next method
Backtrack ==
  LET f == Top
      method == Methods(f)[f.mi]
  IN
  /\ trace' = NotifyOn(trace, "onBacktrack",
                 <<"onBacktrack", Current(f), method.name, f.depth>>)
  /\ log' = LogOn(log, "onBacktrack",
                   <<"onBacktrack", Current(f), method.name, f.depth>>)
  /\ stack' = SetTop(stack, [f EXCEPT !.at = "methods", !.mi = f.mi + 1,
                                      !.failed = f.failed \cup {f.mi}])
  /\ ret' = NoReturn
  /\ UNCHANGED <<plan, pc, result, calls, stamps, rejected, napply, nullReturns>>
  /\ UNCHANGED config
  /\ UNCHANGED builder

MethodReturn ==
  /\ pc = "solve"
  /\ stack # <<>>
  /\ Top.at = "mcall"
  /\ ret.kind # "none"
  /\ IF ret.kind = "solved" THEN PassResult ELSE Backtrack
  /\ UNCHANGED <<visited, queue, prevResult, prevCalls>>

(***************************************************************************)
(* plan(), lines 179-213: the failure diagnosis over the top-level goals,  *)
(* against the original initial state.                                     *)
(***************************************************************************)
\* methods.some((m) => m.condition(s)): the index of the first method whose
\* condition holds, 0 when there is none.
FirstApplicable(ms, s) ==
  LET I == {i \in 1..Len(ms) : condition(ms[i].condition, s)}
  IN IF I = {} THEN 0 ELSE CHOOSE i \in I : \A j \in I : i <= j

\* The condition calls some() makes: it stops at the first true one.
SomeCalls(ms, s) ==
  LET k == FirstApplicable(ms, s)
      n == IF k = 0 THEN Len(ms) ELSE k
  IN [i \in 1..n |-> CondCall("method", ms[i].name, s)]

\* A diagnosis that scans all the goals for a failing operator first and
\* only then for a compound task without an applicable method.
DiagnoseOperatorsFirst(i, cs) ==
  LET ops == { k \in i..Len(goals) :
                 /\ hasOwnTask(domain.operators, goals[k])
                 /\ ~condition(domain.operators[goals[k]].condition,
                               initialState) }
      cmp == { k \in i..Len(goals) :
                 /\ hasOwnTask(domain.compoundTasks, goals[k])
                 /\ FirstApplicable(domain.compoundTasks[goals[k]].methods,
                                    initialState) = 0 }
      Min(S) == CHOOSE k \in S : \A j \in S : k <= j
  IN [result |->
        IF ops # {}
          THEN PlanningFailure("OPERATOR_PRECONDITION_FAILED", goals[Min(ops)])
        ELSE IF cmp # {}
          THEN PlanningFailure("NO_APPLICABLE_METHOD", goals[Min(cmp)])
        ELSE PlanningFailure("NO_APPLICABLE_METHOD",
                             IF goals # <<>> THEN goals[1] ELSE "(unknown)"),
      calls |-> cs]

\* The for loop of lines 182-206 from goal i on, then lines 208-212;
\* cs are the condition calls made so far.
RECURSIVE Diagnose(_, _)
Diagnose(i, cs) ==
  IF i > Len(goals)
    THEN [result |-> PlanningFailure("NO_APPLICABLE_METHOD",
                        IF goals # <<>> THEN goals[1] ELSE "(unknown)"),
          calls |-> cs]
    ELSE
      LET goal == goals[i]
          isOp == hasOwnTask(domain.operators, goal)
          isCompound == hasOwnTask(domain.compoundTasks, goal)
          cs1 == IF isOp
                   THEN Append(cs, CondCall("operator", goal, initialState))
                   ELSE cs
      IN
      IF isOp /\ ~condition(domain.operators[goal].condition, initialState)
        THEN [result |-> PlanningFailure("OPERATOR_PRECONDITION_FAILED", goal),
              calls |-> cs1]
      ELSE IF isCompound
        THEN
          LET ms == domain.compoundTasks[goal].methods
              cs2 == cs1 \o SomeCalls(ms, initialState)
          IN IF FirstApplicable(ms, initialState) = 0
               THEN [result |-> PlanningFailure("NO_APPLICABLE_METHOD", goal),
                     calls |-> cs2]
               ELSE Diagnose(i + 1, cs2)
      ELSE Diagnose(i + 1, cs1)

(***************************************************************************)
(* plan(), lines 177-215: the outermost solve() has returned.              *)
(***************************************************************************)
PlanReturn ==
  /\ pc = "solve"
  /\ stack = <<>>
  /\ ret.kind # "none"
  /\ IF ret.kind = "null"
       THEN LET d == Diagnose(1, calls) IN
            /\ result' = d.result
            /\ calls' = d.calls
            /\ log' = LogCalls(log, SubSeq(d.calls, Len(calls) + 1,
                                            Len(d.calls)))
       ELSE /\ result' = PlanningSuccess(ret.plan)
            /\ UNCHANGED <<calls, log>>
  /\ pc' = "done"
  /\ UNCHANGED <<visited, queue, stack, plan, ret, prevResult, prevCalls,
                 trace, stamps, rejected, napply, nullReturns>>
  /\ UNCHANGED config
  /\ UNCHANGED builder

Next ==
  \/ PlanCall
  \/ PreCheckStep
  \/ PreCheckDone
  \/ SolveEntry
  \/ MethodLoop
  \/ OperatorReturn
  \/ MethodReturn
  \/ PlanReturn

Spec == Init /\ [][Next]_vars

(***************************************************************************)
(* Planning with and without hooks.  createPlanner keeps the caller's      *)
(* config object and plan() reads config.hooks at every call (line 177),   *)
(* so the caller may plan without hooks, provide any of the four hooks,    *)
(* and plan again.                                                         *)
(***************************************************************************)
\* The hooks objects: every subset of the four callbacks; {} stands both
\* for no hooks object and for an empty one (hooks?.onX?.() skips both).
HookSubsets == SUBSET AllHooks

\* The domains of this specification: operator "b" asks for the counter to
\* be zero and keeps it, the first method of "T" is always applicable, and
\* "U", when registered, expands to "T" or to the unregistered "x".
HookDomains ==
  { d \in Domains :
      /\ d.operators["b"].condition = "zero"
      /\ d.operators["b"].effect = "keep"
      /\ d.compoundTasks["T"].methods[1].condition = "always"
      /\ "U" \in DOMAIN d.compoundTasks =>
            d.compoundTasks["U"].methods[1].subtasks # <<"b">> }

\* A planner on which plan() has not been called.
Idle ==
  /\ pc = "idle"
  /\ visited = {}
  /\ queue = <<>>
  /\ stack = <<>>
  /\ plan = <<>>
  /\ ret = NoReturn
  /\ result = NoResult
  /\ prevResult = NoResult
  /\ prevCalls = <<>>
  /\ trace = <<>>
  /\ calls = <<>>
  /\ stamps = <<>>
  /\ rejected = {}
  /\ napply = 0
  /\ nullReturns = 0
  /\ log = <<>>
  /\ NoBuilder

InitHooks ==
  /\ domain \in HookDomains
  /\ initialState \in States
  /\ goals \in GoalLists
  /\ hooks = {}
  /\ Idle

\* The caller assigns config.hooks between two plan() calls.
SetHooks ==
  /\ pc = "done"
  /\ hooks' \in HookSubsets \ {hooks}
  /\ UNCHANGED <<domain, initialState, goals, pc, visited, queue, stack, plan,
                 ret, result, prevResult, prevCalls>>
  /\ UNCHANGED history
  /\ UNCHANGED builder

NextHooks ==
  \/ PlanCall
  \/ PreCheckStep
  \/ PreCheckDone
  \/ SolveEntry
  \/ MethodLoop
  \/ OperatorReturn
  \/ MethodReturn
  \/ PlanReturn
  \/ SetHooks

SpecHooks == InitHooks /\ [][NextHooks]_vars

(***************************************************************************)
(* Properties.                                                             *)
(***************************************************************************)
Done == pc = "done"
Succeeded == Done /\ result.kind = "success"
Failed == Done /\ result.kind = "failure"
Threw == Done /\ result.kind = "PlannerMaxDepthError"

\* The names of a sequence of operators.
NamesOf(p) == [i \in 1..Len(p) |-> p[i].name]

\* Replaying p from state s: every operator's condition holds in the state
\* the effects of the operators before it produce.
RECURSIVE Executable(_, _)
Executable(p, s) ==
  \/ p = <<>>
  \/ /\ condition(Head(p).condition, s)
     /\ Executable(Tail(p), effect(Head(p).effect, s))

\* C1: every successful plan() result is executable: replayed from
\* initialState, each operator's condition is true in the state it is
\* applied to.
C1_PlanExecutable ==
  Succeeded => Executable(result.plan, initialState)

\* A successful plan of two operators, found after a branch was rewound.
C1_Witness ==
  Succeeded /\ Len(result.plan) >= 2 /\ rejected # {}

\* The names registered in the domain.
Registered == DOMAIN domain.operators \cup DOMAIN domain.compoundTasks

\* The plans of every choice of applicable methods along the left-to-right
\* expansion of the task list ts from state s, in depth-first order (methods
\* in registration order); a choice is followed for at most
\* MAX_RECURSION_DEPTH steps beyond depth d.
RECURSIVE ChoicePlans(_, _, _), MethodChoicePlans(_, _, _, _)
ChoicePlans(ts, s, d) ==
  IF d > MAX_RECURSION_DEPTH THEN <<>>
  ELSE IF ts = <<>> THEN << <<>> >>
  ELSE IF Head(ts) \in DOMAIN domain.operators
    THEN LET op == domain.operators[Head(ts)] IN
         IF condition(op.condition, s)
           THEN LET sub == ChoicePlans(Tail(ts), effect(op.effect, s), d + 1)
                IN [i \in 1..Len(sub) |-> <<op>> \o sub[i]]
           ELSE <<>>
  ELSE IF Head(ts) \in DOMAIN domain.compoundTasks
    THEN MethodChoicePlans(ts, s, d, 1)
  ELSE <<>>
MethodChoicePlans(ts, s, d, i) ==
  LET ms == domain.compoundTasks[Head(ts)].methods IN
  IF i > Len(ms) THEN <<>>
  ELSE (IF condition(ms[i].condition, s)
          THEN ChoicePlans(ms[i].subtasks \o Tail(ts), s, d + 1)
          ELSE <<>>)
       \o MethodChoicePlans(ts, s, d, i + 1)

Range(f) == { f[i] : i \in DOMAIN f }

\* The names in the subtask lists of the methods of compound task n.
SubtaskNames(n) ==
  IF n \in DOMAIN domain.compoundTasks
    THEN UNION { Range(m.subtasks) : m \in Range(domain.compoundTasks[n].methods) }
    ELSE {}

\* The names reachable from the goals through the subtask lists of the
\* compound tasks' methods, at any decomposition depth.
RECURSIVE ReachableFrom(_)
ReachableFrom(S) ==
  LET T == S \cup UNION { SubtaskNames(n) : n \in S }
  IN IF T = S THEN S ELSE ReachableFrom(T)
Reachable == ReachableFrom(Range(goals))

\* C2: when no explored branch reaches the depth ceiling and every name
\* reachable from the goals is registered, plan() succeeds exactly when some
\* choice of applicable methods makes every operator precondition hold, the
\* plan is that of the first such choice in depth-first order, and failure
\* means every choice has been exhausted.
C2_FirstPlanInDepthFirstOrder ==
  (Done /\ ~Threw /\ Reachable \subseteq Registered) =>
    LET P == ChoicePlans(goals, initialState, 0) IN
    /\ result.kind \in {"success", "failure"}
    /\ (result.kind = "success") <=> (P # <<>>)
    /\ (result.kind = "success") => (result.plan = P[1])

\* A successful run with several successful choices, found after backtracking.
C2_Witness ==
  /\ Succeeded
  /\ rejected # {}
  /\ Len(ChoicePlans(goals, initialState, 0)) >= 2
  /\ result.plan # <<>>

\* C3: when a method of a compound task is being expanded, its condition
\* holds in the state at which the task was dequeued, and every earlier
\* method whose condition holds in that state has been expanded before and
\* its recursive search has returned failure.  This holds of every
\* activation on the stack, also while a plan is being passed up.
C3_FirstValidMethodWins ==
  \A i \in 1..Len(stack) :
    LET f == stack[i] IN
    f.at = "mcall" =>
      /\ condition(Methods(f)[f.mi].condition, f.state)
      /\ \A j \in 1..(f.mi - 1) :
           condition(Methods(f)[j].condition, f.state) => j \in f.failed

\* A plan is passed up through a compound task whose second method found it
\* after its first method, applicable too, had failed.
C3_Witness ==
  /\ ret.kind = "solved"
  /\ \E i \in 1..Len(stack) :
       /\ stack[i].at = "mcall"
       /\ stack[i].mi = 2
       /\ stack[i].failed = {1}
       /\ condition(Methods(stack[i])[1].condition, stack[i].state)

\* The effect applications of this call, in order.
Applied == SelectSeq(calls, LAMBDA c : c.fn = "effect")

\* C4: a method whose expansion applied operators and then failed is
\* rejected as a whole: when its search returns failure the accumulator is
\* as long as when the compound task was dequeued, no entry of the
\* accumulator is an application of a branch that returned failure, and a
\* successful plan is made of exactly the applications that were never
\* rewound.
C4_NoResidueOfRejectedBranch ==
  /\ \A i \in 1..Len(stamps) : stamps[i] \notin rejected
  /\ (pc = "solve" /\ stack # <<>> /\ ret.kind = "null" /\ Top.at = "mcall")
       => Len(plan) = Top.planLen
  /\ Succeeded =>
       /\ Len(result.plan) = Len(stamps)
       /\ \A i \in 1..Len(stamps) :
            /\ stamps[i] \in 1..Len(Applied)
            /\ result.plan[i].name = Applied[stamps[i]].of

\* The deep-backtracking scenario: the first method applied "a" and then
\* failed, and the plan found through the second method is [b] alone.
C4_Witness ==
  /\ Succeeded
  /\ goals = <<"T">>
  /\ rejected = {1}
  /\ Applied[1].of = "a"
  /\ NamesOf(result.plan) = <<"b">>

\* The names met level by level from the goals: level 0 is the goal list,
\* level k + 1 the subtasks of the compound tasks of level k, methods in
\* registration order and subtasks in list order.
RECURSIVE SubtasksOf(_), Below(_), Level(_), Levels(_)
SubtasksOf(ms) ==
  IF ms = <<>> THEN <<>> ELSE Head(ms).subtasks \o SubtasksOf(Tail(ms))
Below(ns) ==
  IF ns = <<>> THEN <<>>
  ELSE (IF Head(ns) \in DOMAIN domain.compoundTasks
          THEN SubtasksOf(domain.compoundTasks[Head(ns)].methods)
          ELSE <<>>)
       \o Below(Tail(ns))
Level(k) == IF k = 0 THEN goals ELSE Below(Level(k - 1))
Levels(k) == IF k = 0 THEN Level(0) ELSE Levels(k - 1) \o Level(k)

\* The names reachable from the goals, in breadth-first order.
BreadthFirst == Levels(Cardinality(Reachable))

\* The first unregistered name in breadth-first order, "" when there is none.
FirstUnknown ==
  LET U == { i \in 1..Len(BreadthFirst) : BreadthFirst[i] \notin Registered }
  IN IF U = {} THEN ""
     ELSE BreadthFirst[CHOOSE i \in U : \A j \in U : i <= j]

UnknownTask == Failed /\ result.reason = "UNKNOWN_TASK"

\* C5: plan() returns UNKNOWN_TASK exactly when some name reachable from
\* the goals through the subtask lists of compound tasks' methods is
\* neither an operator nor a compound task, and failedTask is then the
\* first such name in breadth-first order from the goals.
C5_UnknownTaskIsFirstInBreadthFirstOrder ==
  Done =>
    /\ UnknownTask <=> ~(Reachable \subseteq Registered)
    /\ UnknownTask => result.failedTask = FirstUnknown

\* The unregistered goal "U" is reported although the subtask "x" of the
\* goal before it is unregistered too and comes first in depth-first order.
C5_Witness ==
  /\ UnknownTask
  /\ goals = <<"T", "U">>
  /\ result.failedTask = "U"
  /\ "x" \in SubtaskNames("T")

\* C6: an UNKNOWN_TASK failure is decided before the search begins: no
\* condition has been evaluated, no effect applied and no hook invoked.
C6_UnknownTaskBeforeSearch ==
  UnknownTask => calls = <<>> /\ trace = <<>> /\ napply = 0

\* An unknown name below a compound task with methods is reported.
C6_Witness ==
  /\ UnknownTask
  /\ result.failedTask \notin Range(goals)
  /\ AllHooks \subseteq hooks

\* C7: plan() with an empty goal list returns success with an empty plan,
\* applies no operator and invokes no hook.
C7_EmptyGoals ==
  (Done /\ goals = <<>>) =>
    /\ result = PlanningSuccess(<<>>)
    /\ napply = 0
    /\ Applied = <<>>
    /\ trace = <<>>

\* A call with an empty goal list and all four hooks is over.
C7_Witness == Done /\ goals = <<>> /\ AllHooks \subseteq hooks

\* C8: no step of plan() changes the caller's initialState, the goal list
\* or the domain's tables, however the call ends.
C8_CallerDataUnchanged ==
  [][ /\ domain' = domain
      /\ initialState' = initialState
      /\ goals' = goals ]_vars

\* A call that applied operators and expanded methods raised the max-depth
\* error.
C8_Witness == Threw /\ napply > 0 /\ trace # <<>>

\* C9: a plan() call returns what the previous call on the same planner,
\* over the same domain, initial state and goals, returned.
C9_Deterministic ==
  (Done /\ prevResult.kind # "none") => result = prevResult

\* The second of two calls that found a plan after backtracking is over.
C9_Witness ==
  /\ Done
  /\ prevResult.kind = "success"
  /\ Len(prevResult.plan) >= 2
  /\ rejected # {}

\* C10: every entry of a successful plan is the operator object the
\* domain's operator table holds under that entry's name.
C10_PlanEntriesAreDomainOperators ==
  Succeeded =>
    \A i \in 1..Len(result.plan) :
      /\ result.plan[i].name \in DOMAIN domain.operators
      /\ result.plan[i] = domain.operators[result.plan[i].name]
      /\ result.plan[i].id = domain.operators[result.plan[i].name].id

\* A successful plan with two different operators.
C10_Witness ==
  /\ Succeeded
  /\ {"a", "b"} \subseteq Range(NamesOf(result.plan))

(***************************************************************************)
(* Planning over a domain that registers one name, "b", both as an         *)
(* operator and as a compound task.  types.ts lets the two tables of a     *)
(* Domain share a key, and so does the Domain class of domain.ts.          *)
(***************************************************************************)
\* The method lists of the compound task "b".
MethodListsB ==
  { <<Method("mb", c, st)>> : c \in {"always", "pos"},
                              st \in {<<"a">>, <<"x">>} }

BothDomains ==
  { [operators |-> d.operators,
     compoundTasks |->
       [n \in {"T", "b"} |->
          IF n = "T" THEN d.compoundTasks["T"] ELSE CompoundTask("b", mb)]] :
    d \in Domains, mb \in MethodListsB }

BothGoalLists == UNION { [1..k -> {"T", "b"}] : k \in 0..MaxGoals }

InitBoth ==
  /\ domain \in BothDomains
  /\ initialState \in States
  /\ goals \in BothGoalLists
  /\ hooks \in HookChoices
  /\ Idle

SpecBoth == InitBoth /\ [][Next]_vars

\* The hook entries and the call entries of the log.
HookLog == SelectSeq(log, LAMBDA e : e.hook # <<>>)
CallLog == SelectSeq(log, LAMBDA e : e.hook = <<>>)
Hooked(lg) == [i \in 1..Len(lg) |-> lg[i].hook]
Called(lg) == [i \in 1..Len(lg) |-> lg[i].call]

\* The log interleaves exactly the notifications of trace and the calls of
\* calls.
LogAgrees == Hooked(HookLog) = trace /\ Called(CallLog) = calls

\* C11: hooks are purely observational.  The first plan() call of a planner
\* runs without hooks and every later call with any subset of the four
\* hooks; each call returns the result of the call before it and makes the
\* same condition evaluations and effect applications in the same order, so
\* every call agrees with the call without hooks.
C11_HooksAreObservational ==
  (Done /\ prevResult.kind # "none") =>
    /\ result = prevResult
    /\ calls = prevCalls

\* A call with only onTaskExpand and onOperatorApply provided, which rewound
\* a branch and found a plan, after a call that found it too.
C11_Witness ==
  /\ Succeeded
  /\ prevResult.kind = "success"
  /\ hooks = {"onTaskExpand", "onOperatorApply"}
  /\ rejected # {}
  /\ trace # <<>>
  /\ result.plan # <<>>

\* Goal g is an operator whose condition is false in the initial state.
OperatorFails(g) ==
  /\ g \in DOMAIN domain.operators
  /\ ~condition(domain.operators[g].condition, initialState)

\* Goal g is a compound task none of whose methods' conditions holds in the
\* initial state.
NoMethodApplies(g) ==
  /\ g \in DOMAIN domain.compoundTasks
  /\ \A m \in Range(domain.compoundTasks[g].methods) :
        ~condition(m.condition, initialState)

SearchFailed == Failed /\ result.reason # "UNKNOWN_TASK"

\* C12: a failed search is classified by the first top-level goal, in list
\* order, that is an operator whose condition is false in the original
\* initial state (OPERATOR_PRECONDITION_FAILED naming it) or a compound task
\* with no method whose condition holds there (NO_APPLICABLE_METHOD naming
\* it); when no goal qualifies the result is NO_APPLICABLE_METHOD naming the
\* first goal.
C12_FailureClassifiedByFirstGoal ==
  SearchFailed =>
    LET Q == { i \in 1..Len(goals) :
                 OperatorFails(goals[i]) \/ NoMethodApplies(goals[i]) }
    IN IF Q = {}
         THEN result = PlanningFailure("NO_APPLICABLE_METHOD", goals[1])
         ELSE LET i == CHOOSE k \in Q : \A j \in Q : k <= j IN
              result = PlanningFailure(
                         IF OperatorFails(goals[i])
                           THEN "OPERATOR_PRECONDITION_FAILED"
                           ELSE "NO_APPLICABLE_METHOD",
                         goals[i])

\* Both goals qualify and the first one, a compound task, is named.
C12_Witness ==
  /\ SearchFailed
  /\ goals = <<"T", "b">>
  /\ NoMethodApplies("T")
  /\ OperatorFails("b")
  /\ result.failedTask = "T"

\* A solve() activation has been entered with a depth above the ceiling.
DepthExceeded ==
  /\ pc = "solve"
  /\ stack # <<>>
  /\ Top.at = "entry"
  /\ Top.depth > MAX_RECURSION_DEPTH

\* C13: when a recursive search call is entered with a depth above the
\* ceiling, plan() ends at once with PlannerMaxDepthError instead of a
\* PlanningResult: no activation goes on, so no sibling method is tried, no
\* condition evaluated and no hook notified afterwards.
C13_MaxDepthIsFatal ==
  [][ DepthExceeded =>
        /\ pc' = "done"
        /\ result' = PlannerMaxDepthError
        /\ stack' = <<>>
        /\ trace' = trace
        /\ calls' = calls ]_vars

\* plan() raised the error although a later method of a compound task on
\* the way would have led to a complete plan.
C13_Witness ==
  /\ Threw
  /\ goals = <<"T">>
  /\ Len(domain.compoundTasks["T"].methods) = 2
  /\ domain.compoundTasks["T"].methods[2].subtasks = <<"a">>
  /\ ChoicePlans(goals, initialState, 0) # <<>>

\* C14: every failure result carries one of the three reasons and a real
\* task name: a name reachable from the goals for UNKNOWN_TASK, an element
\* of the goal list for the other two reasons, and never the placeholder
\* "(unknown)".
C14_FailureNamesARealTask ==
  Failed =>
    /\ result.reason \in {"UNKNOWN_TASK", "OPERATOR_PRECONDITION_FAILED",
                           "NO_APPLICABLE_METHOD"}
    /\ result.reason = "UNKNOWN_TASK" => result.failedTask \in Reachable
    /\ result.reason # "UNKNOWN_TASK" => result.failedTask \in Range(goals)
    /\ result.failedTask # "(unknown)"

\* A failed search that names its second goal.
C14_Witness ==
  /\ SearchFailed
  /\ Len(goals) = 2
  /\ goals[1] # goals[2]
  /\ result.failedTask = goals[2]

\* The names that are keys of both tables.
Both == DOMAIN domain.operators \cap DOMAIN domain.compoundTasks

\* The names reachable from the goals when a name of the operator table is a
\* leaf, whatever the compound-task table holds under it.
RECURSIVE ReachableLeafFrom(_)
ReachableLeafFrom(S) ==
  LET T == S \cup UNION { SubtaskNames(n) : n \in S \ DOMAIN domain.operators }
  IN IF T = S THEN S ELSE ReachableLeafFrom(T)

\* The pre-check treats a name of both tables as a leaf: it never meets a
\* name that is reachable only through that name's methods.
BothIsLeafInPreCheck ==
  (visited \cup Range(queue)) \subseteq ReachableLeafFrom(Range(goals))

\* The search applies a name of both tables as an operator and never
\* expands its methods.
BothIsOperatorInSearch ==
  /\ \A i \in 1..Len(stack) :
        stack[i].at \in {"methods", "mcall"} => Current(stack[i]) \notin Both
  /\ \A i \in 1..Len(trace) :
        trace[i][1] \in {"onMethodTry", "onBacktrack"} => trace[i][2] \notin Both
  /\ \A i \in 1..Len(log) :
        (log[i].hook # <<>> /\ log[i].hook[1] = "onTaskExpand"
           /\ log[i].hook[2] \in Both)
        => /\ i < Len(log)
           /\ log[i + 1].call = CondCall("operator", log[i].hook[2],
                                          log[i + 1].call.arg)

\* The diagnosis classifies a goal of both tables by its operator condition
\* only: its methods never make it the goal NO_APPLICABLE_METHOD names.
BothIsOperatorInDiagnosis ==
  SearchFailed =>
    LET Q == { i \in 1..Len(goals) :
                 \/ OperatorFails(goals[i])
                 \/ goals[i] \notin Both /\ NoMethodApplies(goals[i]) }
    IN IF Q = {}
         THEN result = PlanningFailure("NO_APPLICABLE_METHOD", goals[1])
         ELSE LET i == CHOOSE k \in Q : \A j \in Q : k <= j IN
              result = PlanningFailure(
                         IF OperatorFails(goals[i])
                           THEN "OPERATOR_PRECONDITION_FAILED"
                           ELSE "NO_APPLICABLE_METHOD",
                         goals[i])

\* C15: a name that is a key of both tables is resolved as an operator in
\* every place the engine looks names up: the pre-check treats it as a
\* leaf, the search applies it as an operator and never expands its
\* methods, and the failure diagnosis classifies it by its operator
\* condition only.
C15_BothTablesNameIsAnOperator ==
  /\ BothIsLeafInPreCheck
  /\ BothIsOperatorInSearch
  /\ BothIsOperatorInDiagnosis

\* The entries a step adds to the log.
NewLog == SubSeq(log', Len(log) + 1, Len(log'))
\* A step of the search only adds entries to the log.
LogGrows == Len(log') >= Len(log) /\ SubSeq(log', 1, Len(log)) = log

IsHook(e, h) == e.hook # <<>> /\ e.hook[1] = h

\* A fresh solve() activation that is about to dequeue a task.
Dequeues ==
  /\ pc = "solve"
  /\ stack # <<>>
  /\ Top.at = "entry"
  /\ Top.depth <= MAX_RECURSION_DEPTH
  /\ Top.tasks # <<>>

\* C16: an activation of the search that dequeues a task notifies
\* onTaskExpand once, with the task's name and the activation's depth,
\* before anything else it does (any condition it evaluates comes later in
\* the log), whatever the task is; no other step notifies onTaskExpand, in
\* particular not an activation whose task list is empty.
C16_TaskExpandOncePerDequeue ==
  [][ IF pc = "solve"
        THEN /\ LogGrows
             /\ IF Dequeues
                  THEN /\ NewLog # <<>>
                       /\ NewLog[1] = HookEntry(<<"onTaskExpand",
                                                  Head(Top.tasks), Top.depth>>)
                       /\ \A i \in 2..Len(NewLog) :
                            ~IsHook(NewLog[i], "onTaskExpand")
                  ELSE \A i \in 1..Len(NewLog) :
                         ~IsHook(NewLog[i], "onTaskExpand")
        ELSE log' = log \/ log' = <<>> ]_vars

\* An operator whose condition turned out false was notified first, and a
\* compound task and an applied operator have been notified before it.
C16_Witness ==
  /\ pc = "solve"
  /\ ret.kind = "null"
  /\ Len(log) >= 2
  /\ log[Len(log)].call.fn = "condition"
  /\ log[Len(log)].call.kind = "operator"
  /\ IsHook(log[Len(log) - 1], "onTaskExpand")
  /\ log[Len(log) - 1].hook[2] = log[Len(log)].call.of
  /\ \E i \in 1..Len(trace) : trace[i][1] = "onTaskExpand" /\ trace[i][2] = "T"
  /\ napply > 0

\* A fresh activation is about to dequeue a top-level goal: its task list
\* holds top-level goals only.
DequeuesGoal == Dequeues /\ Len(Top.tasks) = Top.goalsLeft

\* The original statement of C17: whenever a top-level goal is dequeued,
\* onTaskExpand is notified with that goal and depth 0.
C17_EveryGoalAtDepthZero ==
  [][ DequeuesGoal =>
        /\ NewLog # <<>>
        /\ NewLog[1] = HookEntry(<<"onTaskExpand", Head(Top.tasks), 0>>) ]_vars

\* C17 (amended): when the first top-level goal is dequeued, onTaskExpand is
\* notified with that goal and depth 0.
C17_FirstGoalAtDepthZero ==
  [][ (DequeuesGoal /\ Top.goalsLeft = Len(goals)) =>
        /\ NewLog # <<>>
        /\ NewLog[1] = HookEntry(<<"onTaskExpand", goals[1], 0>>) ]_vars

\* The first of two goals was notified at depth 0 and the second goal has
\* been dequeued too.
C17_Witness ==
  /\ Len(goals) = 2
  /\ trace # <<>>
  /\ trace[1] = <<"onTaskExpand", goals[1], 0>>
  /\ \E i \in 2..Len(trace) :
        /\ trace[i][1] = "onTaskExpand"
        /\ trace[i][2] = goals[2]
        /\ trace[i][3] > 0
  /\ pc = "solve" /\ stack # <<>> /\ Top.goalsLeft = 0

\* The for loop of a compound task's activation is about to look at a
\* method.
ExaminesMethod ==
  /\ pc = "solve"
  /\ stack # <<>>
  /\ Top.at = "methods"
  /\ Top.mi <= Len(Methods(Top))

\* C18: onMethodTry is notified exactly for the methods whose condition
\* evaluated to true in the state at which their compound task was
\* dequeued: right after that evaluation and right before the search is
\* called on the method's subtasks spliced in front of the rest, with the
\* task's name, the method's name and the depth; a method whose condition
\* is false, and any step that is not about a method, notifies none.
C18_MethodTryExactlyForApplicableMethods ==
  [][ pc = "solve" =>
        IF ExaminesMethod
          THEN LET f == Top
                   m == Methods(f)[f.mi]
                   evaluated == CallEntry(CondCall("method", m.name, f.state))
                   tried == HookEntry(<<"onMethodTry", Current(f), m.name,
                                        f.depth>>)
               IN IF condition(m.condition, f.state)
                    THEN /\ NewLog = <<evaluated, tried>>
                         /\ Len(stack') = Len(stack) + 1
                         /\ stack'[Len(stack')].at = "entry"
                         /\ stack'[Len(stack')].tasks = m.subtasks \o Rest(f)
                         /\ stack'[Len(stack')].state = f.state
                    ELSE NewLog = <<evaluated>>
          ELSE \A i \in 1..Len(NewLog) : ~IsHook(NewLog[i], "onMethodTry")
    ]_vars

\* The second method of a compound task below the top level has just been
\* notified, after its first method was found not applicable.
C18_Witness ==
  /\ pc = "solve"
  /\ Len(stack) >= 2
  /\ Top.at = "entry"
  /\ Len(log) >= 3
  /\ IsHook(log[Len(log)], "onMethodTry")
  /\ log[Len(log)].hook[3] = "m2"
  /\ log[Len(log)].hook[4] > 0
  /\ log[Len(log) - 2].call = CondCall("method", "m1", stack[Len(stack) - 1].state)
  /\ ~condition("zero", stack[Len(stack) - 1].state)

\* The recursive search of a tried method has just returned failure.
MethodSearchFailed ==
  /\ pc = "solve"
  /\ stack # <<>>
  /\ Top.at = "mcall"
  /\ ret.kind = "null"

Backtracks == SelectSeq(trace, LAMBDA ev : ev[1] = "onBacktrack")

\* C19: when the recursive search of a tried method returns failure,
\* onBacktrack is notified once with the task, the method and the depth,
\* before the loop looks at the next method or the compound task fails, and
\* no other step notifies it; every onBacktrack follows an onMethodTry with
\* the same three arguments; there are no more onBacktrack notifications
\* than failed searches, so a run that finds a plan without any failing
\* branch notifies none.
C19_BacktrackOncePerFailedMethod ==
  /\ [][ pc = "solve" =>
           IF MethodSearchFailed
             THEN /\ NewLog = <<HookEntry(<<"onBacktrack", Current(Top),
                                  Methods(Top)[Top.mi].name, Top.depth>>)>>
                  /\ Len(stack') = Len(stack)
                  /\ stack'[Len(stack)].at = "methods"
                  /\ stack'[Len(stack)].mi = Top.mi + 1
                  /\ calls' = calls
             ELSE \A i \in 1..Len(NewLog) : ~IsHook(NewLog[i], "onBacktrack")
       ]_vars
  /\ [](/\ \A i \in 1..Len(trace) :
             trace[i][1] = "onBacktrack" =>
               \E j \in 1..(i - 1) :
                 trace[j] = <<"onMethodTry", trace[i][2], trace[i][3],
                              trace[i][4]>>
        /\ Len(Backtracks) <= nullReturns
        /\ (Succeeded /\ nullReturns = 0) => Backtracks = <<>>)

\* Both methods of a compound task have been tried and have failed: the
\* second onBacktrack has just been notified and the task is about to fail.
C19_Witness ==
  /\ pc = "solve"
  /\ stack # <<>>
  /\ Top.at = "methods"
  /\ Top.mi = 3
  /\ Top.failed = {1, 2}
  /\ Len(Backtracks) >= 2
  /\ trace[Len(trace)] = <<"onBacktrack", Current(Top), "m2", Top.depth>>

\* A fresh activation is about to dequeue an operator.
DequeuesOperator == Dequeues /\ Head(Top.tasks) \in DOMAIN domain.operators

OperatorApplies == SelectSeq(trace, LAMBDA ev : ev[1] = "onOperatorApply")

\* C20: every time an operator's effect is applied, onOperatorApply is
\* notified right after the effect call and before the search goes on with
\* the rest of the queue, with the operator's name, the state it was applied
\* to and the state its effect returned; an operator whose condition is
\* false is not notified and no other step notifies or applies an effect;
\* the notifications are as many as the applications, rewound ones included.
C20_OperatorApplyPerApplication ==
  /\ [][ pc = "solve" =>
           IF DequeuesOperator
             THEN LET f == Top
                      op == domain.operators[Head(f.tasks)]
                      expanded == HookEntry(<<"onTaskExpand", op.name, f.depth>>)
                      tested == CallEntry(CondCall("operator", op.name, f.state))
                      applied == CallEntry(EffectCall(op.name, f.state))
                      after == effect(op.effect, f.state)
                  IN IF condition(op.condition, f.state)
                       THEN /\ NewLog = <<expanded, tested, applied,
                                          HookEntry(<<"onOperatorApply", op.name,
                                                      f.state, after>>)>>
                            /\ Len(stack') = Len(stack) + 1
                            /\ stack'[Len(stack')].at = "entry"
                            /\ stack'[Len(stack')].tasks = Tail(f.tasks)
                            /\ stack'[Len(stack')].state = after
                       ELSE NewLog = <<expanded, tested>>
             ELSE \A i \in 1..Len(NewLog) :
                    /\ ~IsHook(NewLog[i], "onOperatorApply")
                    /\ NewLog[i].call.fn # "effect"
       ]_vars
  /\ [](/\ Len(OperatorApplies) = Len(Applied)
        /\ Len(OperatorApplies) = napply)

\* Two applications have been notified, the first of which was rewound and
\* changed the state, and the plan found holds the second only.
C20_Witness ==
  /\ Succeeded
  /\ Len(OperatorApplies) = 2
  /\ Len(result.plan) = 1
  /\ rejected = {1}
  /\ OperatorApplies[1][3] # OperatorApplies[1][4]

(***************************************************************************)
(* Planning a goal list, and then the single goal "W" over the domain      *)
(* extended by the compound task "W" whose only method is always           *)
(* applicable and has the goal list as its subtasks: createPlanner is      *)
(* called a second time, with the extended domain and the goal list [W].   *)
(***************************************************************************)
\* The domain d extended by the wrapper task of the goal list g.
Wrapped(d, g) ==
  [operators |-> d.operators,
   compoundTasks |->
     [n \in DOMAIN d.compoundTasks \cup {"W"} |->
        IF n = "W" THEN CompoundTask("W", <<Method("mw", "always", g)>>)
                   ELSE d.compoundTasks[n]]]

\* The caller wraps the goals once the first plan() call is over.
Wrap ==
  /\ pc = "done"
  /\ prevResult.kind = "none"
  /\ "W" \notin DOMAIN domain.compoundTasks
  /\ domain' = Wrapped(domain, goals)
  /\ goals' = <<"W">>
  /\ UNCHANGED <<initialState, hooks, pc, visited, queue, stack, plan, ret,
                 result, prevResult, prevCalls>>
  /\ UNCHANGED history
  /\ UNCHANGED builder

NextWrap ==
  \/ PlanCall
  \/ PreCheckStep
  \/ PreCheckDone
  \/ SolveEntry
  \/ MethodLoop
  \/ OperatorReturn
  \/ MethodReturn
  \/ PlanReturn
  \/ Wrap

\* The first call starts from the counter at zero.
InitWrap ==
  /\ Init
  /\ initialState = 0

SpecWrap == InitWrap /\ [][NextWrap]_vars

\* plan() over the wrapped goals is over, after plan() over the goals.
WrappedDone ==
  /\ Done
  /\ goals = <<"W">>
  /\ prevResult.kind # "none"

\* C21: goal order behaves like subtask order in a method.  When neither
\* call raises the max-depth error, planning the single goal "W" succeeds
\* exactly when planning the goal list did, and with the same plan.
C21_GoalsLikeSubtasksOfAWrapper ==
  (WrappedDone /\ result.kind # "PlannerMaxDepthError"
               /\ prevResult.kind # "PlannerMaxDepthError") =>
    /\ (result.kind = "success") <=> (prevResult.kind = "success")
    /\ result.kind = "success" => result.plan = prevResult.plan

\* Both calls found the same plan of two different operators for a list of
\* two goals, after backtracking.
C21_Witness ==
  /\ WrappedDone
  /\ result.kind = "success"
  /\ Len(domain.compoundTasks["W"].methods[1].subtasks) = 2
  /\ {"a", "b"} \subseteq Range(NamesOf(result.plan))
  /\ rejected # {}

(***************************************************************************)
(* domain.ts: the Domain registry.  A registry is built by registration    *)
(* calls, may be looked into and validated at any point, and is then       *)
(* handed to createPlanner as the planner's domain: the registry           *)
(* implements the Domain interface by its two public tables.               *)
(***************************************************************************)
\* A registry receives at most MaxCalls registrations.
MaxCalls == 3

\* The operators, task names and methods the caller registers, and the
\* names the caller looks up.
RegOperators ==
  {Operator("a", "always", "inc", 1), Operator("a", "zero", "keep", 2),
   Operator("constructor", "always", "inc", 3),
   Operator("__proto__", "always", "inc", 4),
   Operator("", "always", "inc", 5)}
RegTaskNames == {"T", "1", "__proto__", ""}
RegMethods ==
  {Method("m1", "always", <<"a", "x">>),
   Method("m2", "always", <<"constructor">>),
   Method("m3", "always", <<"a", "T">>),
   Method("", "always", <<"a">>)}
OperatorLookups == {"a", "b", "constructor", "__proto__", "name"}
MethodLookups == {"m1", "m2", "m3", "constructor", "__proto__"}
RegGoalLists == {<<"T">>, <<"1">>, <<"constructor">>, <<"__proto__">>}

\* The entries of registered.
NoOperator == Operator("", "always", "keep", 0)
NoMethod == Method("", "always", <<>>)
OperatorCall(operator) ==
  [call |-> "registerOperator", taskName |-> "", operator |-> operator,
   method |-> NoMethod]
MethodCall(taskName, method) ==
  [call |-> "registerMethod", taskName |-> taskName, operator |-> NoOperator,
   method |-> method]

\* The planner's view of the registry: domain.operators and
\* domain.compoundTasks, own property by own property, each compound task
\* with the array its entry refers to.
AsDomain(r) ==
  [operators |->
     [k \in DOMAIN r.operators.own |-> r.operators.own[k].operator],
   compoundTasks |->
     [k \in DOMAIN r.compoundTasks.own |->
        CompoundTask(r.compoundTasks.own[k].name,
                     r.arrays[r.compoundTasks.own[k].methods.at])]]

planner == <<pc, visited, queue, stack, plan, ret, result, prevResult,
             prevCalls>>

\* A registerOperator that stores the operator before it tests the name.
registerOperatorStoresFirst(operator) ==
  /\ pc = "none"
  /\ Len(registered) < MaxCalls
  /\ registry' =
       [registry EXCEPT !.operators =
          SetProperty(@, operator.name, OperatorValue(operator))]
  /\ returned' = Outcome("registerOperator", operator.name,
                         IF operator.name = "" THEN "TypeError" ELSE "this",
                         Undefined, "")
  /\ registered' = IF operator.name = "" THEN registered
                   ELSE Append(registered, OperatorCall(operator))
  /\ domain' = AsDomain(registry')
  /\ UNCHANGED <<initialState, goals, hooks>>
  /\ UNCHANGED planner
  /\ UNCHANGED history

\* lines 39-45
registerOperator(operator) ==
  /\ pc = "none"
  /\ IF operator.name = ""
       THEN /\ returned' = Outcome("registerOperator", operator.name,
                                   "TypeError", Undefined, "")
            /\ UNCHANGED <<registry, registered>>
       ELSE /\ Len(registered) < MaxCalls
            /\ registry' =
                 [registry EXCEPT !.operators =
                    SetProperty(@, operator.name, OperatorValue(operator))]
            /\ returned' = Outcome("registerOperator", operator.name, "this",
                                   Undefined, "")
            /\ registered' = Append(registered, OperatorCall(operator))
  /\ domain' = AsDomain(registry')
  /\ UNCHANGED <<initialState, goals, hooks>>
  /\ UNCHANGED planner
  /\ UNCHANGED history

\* lines 63-67: the task's array and its entry, which refers to the array
\* read back from the backing table.
CreateTask(r, taskName) ==
  LET n == Len(r.arrays) + 1
      backing == SetProperty(r._compoundMethods, taskName, ArrayRef(n))
  IN [r EXCEPT
        !.arrays = Append(@, <<>>),
        !._compoundMethods = backing,
        !.compoundTasks =
           SetProperty(@, taskName,
                       Entry(taskName, GetProperty(backing, taskName)))]

\* lines 55-71
registerMethod(taskName, method) ==
  /\ pc = "none"
  /\ IF taskName = "" \/ method.name = ""
       THEN /\ returned' = Outcome("registerMethod", taskName,
                                   "TypeError", Undefined, "")
            /\ UNCHANGED <<registry, registered>>
       ELSE /\ Len(registered) < MaxCalls
            /\ LET r == IF ~hasOwnProperty(registry._compoundMethods, taskName)
                          THEN CreateTask(registry, taskName)
                          ELSE registry
                   array == GetProperty(r._compoundMethods, taskName)
               IN registry' = [r EXCEPT !.arrays[array.at] = Append(@, method)]
            /\ returned' = Outcome("registerMethod", taskName, "this",
                                   Undefined, "")
            /\ registered' = Append(registered, MethodCall(taskName, method))
  /\ domain' = AsDomain(registry')
  /\ UNCHANGED <<initialState, goals, hooks>>
  /\ UNCHANGED planner
  /\ UNCHANGED history

\* lines 78-80
getOperator(name) ==
  /\ pc = "none"
  /\ returned' = Outcome("getOperator", name, "value",
                         GetProperty(registry.operators, name), "")
  /\ UNCHANGED <<registry, registered>>
  /\ UNCHANGED config
  /\ UNCHANGED planner
  /\ UNCHANGED history

\* Object.values(this._compoundMethods), as one list: the methods of every
\* array, table key by table key.
RECURSIVE MethodsOf(_, _)
MethodsOf(r, ks) ==
  IF ks = <<>> THEN <<>>
  ELSE r.arrays[r._compoundMethods.own[Head(ks)].at] \o MethodsOf(r, Tail(ks))

\* methods.find((m) => m.name === name) over the lists, first match first.
Find(ms, name) ==
  LET found == SelectSeq(ms, LAMBDA m : m.name = name)
  IN IF found = <<>> THEN Undefined ELSE MethodValue(Head(found))

\* lines 87-95
getMethod(name) ==
  /\ pc = "none"
  /\ returned' =
       Outcome("getMethod", name, "value",
               Find(MethodsOf(registry, ObjectKeys(registry._compoundMethods)),
                    name),
               "")
  /\ UNCHANGED <<registry, registered>>
  /\ UNCHANGED config
  /\ UNCHANGED planner
  /\ UNCHANGED history

\* validate() taking an inherited member for an operator: subtask in
\* this.operators.
isOperatorInherited(subtask) ==
  subtask \in DOMAIN registry.operators.own \cup ObjectPrototypeKeys
                \cup {"__proto__"}

\* line 119
isOperator(subtask) == hasOwnProperty(registry.operators, subtask)

\* line 120
isCompound(subtask) == hasOwnProperty(registry.compoundTasks, subtask)

\* lines 116-118: the subtasks validate() walks, in the order it walks
\* them: Object.keys(this.compoundTasks), then the methods of
\* this._compoundMethods[taskName] ?? [], then their subtasks.
RECURSIVE Walked(_, _)
Walked(r, ks) ==
  IF ks = <<>> THEN <<>>
  ELSE LET array == GetProperty(r._compoundMethods, Head(ks))
       IN (IF array.t = "array" THEN AllSubtasks(r.arrays[array.at])
           ELSE <<>>)
          \o Walked(r, Tail(ks))

\* lines 115-128
validate ==
  LET unresolved ==
        SelectSeq(Walked(registry, ObjectKeys(registry.compoundTasks)),
                  LAMBDA subtask : ~isOperator(subtask) /\ ~isCompound(subtask))
  IN
  /\ pc = "none"
  /\ returned' =
       IF unresolved # <<>>
         THEN Outcome("validate", "", "DomainValidationError", Undefined,
                      Head(unresolved))
         ELSE Outcome("validate", "", "this", Undefined, "")
  /\ UNCHANGED <<registry, registered>>
  /\ UNCHANGED config
  /\ UNCHANGED planner
  /\ UNCHANGED history

\* createPlanner({ domain, initialState, goals }) with the registry as the
\* domain (README, Domain<TState> - Fluent Builder), once the caller has
\* called validate() on it.
CreatePlanner ==
  /\ pc = "none"
  /\ returned.call = "validate"
  /\ pc' = "idle"
  /\ domain' = AsDomain(registry)
  /\ goals' \in RegGoalLists
  /\ UNCHANGED <<initialState, hooks>>
  /\ UNCHANGED <<visited, queue, stack, plan, ret, result, prevResult,
                 prevCalls>>
  /\ UNCHANGED history
  /\ UNCHANGED builder

\* A new, empty registry; no planner has been created.
InitRegistry ==
  /\ registry = NewDomain
  /\ returned = NoOutcome
  /\ registered = <<>>
  /\ domain = AsDomain(NewDomain)
  /\ initialState = 0
  /\ goals = <<>>
  /\ hooks = AllHooks
  /\ pc = "none"
  /\ visited = {}
  /\ queue = <<>>
  /\ stack = <<>>
  /\ plan = <<>>
  /\ ret = NoReturn
  /\ result = NoResult
  /\ prevResult = NoResult
  /\ prevCalls = <<>>
  /\ trace = <<>>
  /\ calls = <<>>
  /\ stamps = <<>>
  /\ rejected = {}
  /\ napply = 0
  /\ nullReturns = 0
  /\ log = <<>>

NextRegistry ==
  \/ \E operator \in RegOperators : registerOperator(operator)
  \/ \E taskName \in RegTaskNames, method \in RegMethods :
       registerMethod(taskName, method)
  \/ \E name \in OperatorLookups : getOperator(name)
  \/ \E name \in MethodLookups : getMethod(name)
  \/ validate
  \/ CreatePlanner
  \/ PlanCall
  \/ PreCheckStep
  \/ PreCheckDone
  \/ SolveEntry
  \/ MethodLoop
  \/ OperatorReturn
  \/ MethodReturn
  \/ PlanReturn

SpecRegistry == InitRegistry /\ [][NextRegistry]_vars

\* What the registration calls made so far amount to: the task names used,
\* the methods registered under a task name in call order, the operator
\* names used and the operator registered last under a name.
TaskNamesUsed ==
  {registered[i].taskName :
     i \in {j \in 1..Len(registered) : registered[j].call = "registerMethod"}}
RECURSIVE MethodsIn(_, _)
MethodsIn(cs, t) ==
  IF cs = <<>> THEN <<>>
  ELSE (IF Head(cs).call = "registerMethod" /\ Head(cs).taskName = t
          THEN <<Head(cs).method>> ELSE <<>>)
       \o MethodsIn(Tail(cs), t)
MethodsUnder(t) == MethodsIn(registered, t)
OperatorRegistrations(n) ==
  {j \in 1..Len(registered) :
     registered[j].call = "registerOperator" /\ registered[j].operator.name = n}
OperatorNamesUsed ==
  {n \in {op.name : op \in RegOperators} : OperatorRegistrations(n) # {}}
LastOperator(n) ==
  registered[CHOOSE j \in OperatorRegistrations(n) :
               \A k \in OperatorRegistrations(n) : k <= j].operator

\* C22: after any sequence of registerMethod calls, compoundTasks holds
\* exactly the task names used, and compoundTasks[t].methods is the list of
\* the methods registered under t, in call order.
C22_MethodListsInCallOrder ==
  /\ Range(ObjectKeys(registry.compoundTasks)) = TaskNamesUsed
  /\ \A t \in TaskNamesUsed :
       LET entry == GetProperty(registry.compoundTasks, t)
       IN /\ entry.t = "entry"
          /\ entry.name = t
          /\ registry.arrays[entry.methods.at] = MethodsUnder(t)

\* C22 for the task names other than "__proto__": the table's keys and lists
\* are those registered, and an entry once created is never replaced.
C22_OrdinaryNames ==
  /\ Range(ObjectKeys(registry.compoundTasks)) = TaskNamesUsed \ {"__proto__"}
  /\ \A t \in TaskNamesUsed \ {"__proto__"} :
       LET entry == GetProperty(registry.compoundTasks, t)
       IN /\ entry = Entry(t, GetProperty(registry._compoundMethods, t))
          /\ registry.arrays[entry.methods.at] = MethodsUnder(t)

\* C23: after any sequence of registerOperator calls, getOperator(n) and
\* operators[n] are the operator registered last under n, the other names
\* are as on a new registry, and each call returned the registry.
C23_LastOperatorWins ==
  /\ \A n \in OperatorNamesUsed :
       GetProperty(registry.operators, n) = OperatorValue(LastOperator(n))
  /\ \A n \in OperatorLookups \ OperatorNamesUsed :
       GetProperty(registry.operators, n) = GetProperty(EmptyObject, n)
  /\ returned.call = "getOperator" =>
       returned.value = GetProperty(registry.operators, returned.arg)
  /\ (returned.call = "registerOperator" /\ returned.arg # "") =>
       returned.kind = "this"

\* The task names used, in the order of their first registerMethod call, and
\* the subtask names of the registered methods in that order of tasks, then
\* in the order the methods were registered, then as listed.
RECURSIVE CreationOrder(_, _)
CreationOrder(cs, seen) ==
  IF cs = <<>> THEN <<>>
  ELSE IF Head(cs).call = "registerMethod" /\ Head(cs).taskName \notin seen
    THEN <<Head(cs).taskName>>
           \o CreationOrder(Tail(cs), seen \cup {Head(cs).taskName})
    ELSE CreationOrder(Tail(cs), seen)
RECURSIVE SubtasksUnder(_)
SubtasksUnder(ts) ==
  IF ts = <<>> THEN <<>>
  ELSE AllSubtasks(MethodsUnder(Head(ts))) \o SubtasksUnder(Tail(ts))
RegisteredSubtasks == SubtasksUnder(CreationOrder(registered, {}))

\* A name is an own key of one of the two tables.
OwnKey(n) ==
  \/ hasOwnProperty(registry.operators, n)
  \/ hasOwnProperty(registry.compoundTasks, n)
UnresolvedSubtasks == SelectSeq(RegisteredSubtasks, LAMBDA n : ~OwnKey(n))

\* C24: validate() raises DomainValidationError exactly when some subtask
\* name of some registered method is a key of neither table, naming the first
\* such name in the order the compound tasks were created, then the methods
\* were registered, then the subtasks are listed; otherwise it returns the
\* registry.
C24_ValidateReportsFirstUnresolved ==
  returned.call = "validate" =>
    IF UnresolvedSubtasks # <<>>
      THEN /\ returned.kind = "DomainValidationError"
           /\ returned.unresolvedTask = Head(UnresolvedSubtasks)
      ELSE returned.kind = "this"

\* The names of the methods registered.
MethodNamesUsed ==
  {registered[i].method.name :
     i \in {j \in 1..Len(registered) : registered[j].call = "registerMethod"}}

\* C25: getOperator(name) returns undefined for every name no operator was
\* registered under, and getMethod(name) returns undefined for every name
\* that is the name of no registered method, on the empty registry too.
C25_LookupsOfAbsentNamesAreUndefined ==
  /\ (returned.call = "getOperator" /\ returned.arg \notin OperatorNamesUsed)
       => returned.value = Undefined
  /\ (returned.call = "getMethod" /\ returned.arg \notin MethodNamesUsed)
       => returned.value = Undefined

\* C25 for getMethod alone.
C25_GetMethodOfAbsentName ==
  (returned.call = "getMethod" /\ returned.arg \notin MethodNamesUsed)
    => returned.value = Undefined

\* C24 while "__proto__" is not used as a task name.
C24_WithoutProtoTasks ==
  "__proto__" \notin TaskNamesUsed => C24_ValidateReportsFirstUnresolved

\* The names a plain object answers to without owning them.
InheritedNames == ObjectPrototypeKeys \cup {"__proto__"}

\* The subtask names in the methods of the compound tasks of the table.
TableSubtasks ==
  UNION { Range(m.subtasks) :
            m \in UNION { Range(registry.arrays[
                                  registry.compoundTasks.own[k].methods.at]) :
                            k \in DOMAIN registry.compoundTasks.own } }

\* The planner was created over the registry that validate() has examined.
Planning == pc \notin {"none", "idle"}

\* C26: a name counts as known only if it is an own key of the operators
\* table or of the compound-task table.  validate() returns the registry
\* only if every subtask name in the table's methods is an own key, the
\* pre-check lets the search start only if every name reachable from the
\* goals is an own key, the search examines, applies and expands own keys
\* only, and a name that is merely inherited ("constructor", "toString",
\* "__proto__") is reported unresolved by both.
C26_OnlyOwnKeysAreKnown ==
  /\ (returned.call = "validate" /\ returned.kind = "this") =>
       \A n \in TableSubtasks : OwnKey(n)
  /\ returned.kind = "DomainValidationError" =>
       /\ returned.unresolvedTask \in TableSubtasks
       /\ ~OwnKey(returned.unresolvedTask)
  /\ (Planning /\ (pc = "solve" \/ (Done /\ ~UnknownTask))) =>
       \A n \in Reachable : OwnKey(n)
  /\ (Done /\ UnknownTask) =>
       /\ result.failedTask \in Reachable
       /\ ~OwnKey(result.failedTask)
  /\ Planning =>
       /\ \A i \in 1..Len(calls) :
            calls[i].kind = "operator" =>
              hasOwnProperty(registry.operators, calls[i].of)
       /\ \A i \in 1..Len(trace) :
            /\ trace[i][1] = "onOperatorApply" =>
                 hasOwnProperty(registry.operators, trace[i][2])
            /\ trace[i][1] \in {"onMethodTry", "onBacktrack"} =>
                 hasOwnProperty(registry.compoundTasks, trace[i][2])
       /\ \A i \in 1..Len(plan) :
            hasOwnProperty(registry.operators, plan[i].name)

\* validate() has thrown on, and the pre-check has then reported, the
\* inherited name "constructor", a subtask on the way from the goal T, in a
\* registry that holds the operator a.
C26_Witness ==
  /\ Done
  /\ returned.kind = "DomainValidationError"
  /\ returned.unresolvedTask = "constructor"
  /\ UnknownTask
  /\ result.failedTask = "constructor"
  /\ goals = <<"T">>
  /\ hasOwnProperty(registry.operators, "a")

\* C27: the accumulator is rewound on failure.  Whenever an activation of
\* solve() returns null the accumulator holds exactly the operators it held
\* when the activation was entered, so each method of a compound task meets
\* the same plan prefix; on success the plan returned is the copy of the
\* accumulator taken by the activation whose queue was empty, handed up
\* unchanged.
C27_AccumulatorRewoundOnFailure ==
  /\ [][ nullReturns' = nullReturns + 1 => plan' = Top.held ]_vars
  /\ [](( pc = "solve" /\ stack # <<>> /\ Top.at \in {"entry", "methods"})
          => plan = Top.held)
  /\ [][ ret'.kind = "solved" =>
           IF ret.kind = "solved" THEN ret' = ret
           ELSE Top.tasks = <<>> /\ ret'.plan = plan ]_vars
  /\ [][ (pc = "solve" /\ pc' = "done" /\ ret.kind = "solved") =>
           result' = PlanningSuccess(ret.plan) ]_vars

\* The second method of a compound task is about to be examined after the
\* first one applied two operators and failed; the accumulator holds one
\* operator, as it did when the task was dequeued.
C27_Witness ==
  /\ pc = "solve"
  /\ stack # <<>>
  /\ Top.at = "methods"
  /\ Top.mi = 2
  /\ Top.held = plan
  /\ Len(plan) = 1
  /\ Cardinality(rejected) >= 2

\* The calls of the caller's functions a step adds.
NewCalls ==
  IF Len(calls') >= Len(calls) THEN SubSeq(calls', Len(calls) + 1, Len(calls'))
  ELSE calls'

\* The activations on the stack before and after a step.
Kept == 1..(IF Len(stack) <= Len(stack') THEN Len(stack) ELSE Len(stack'))

\* C28: expanding a compound task leaves the simulated state alone.  An
\* activation keeps the state it was entered with for as long as it lives,
\* the search of a tried method's subtasks is entered with the state of the
\* activation that dequeued the compound task, and every method condition
\* the search evaluates, also after a backtrack, is evaluated on that state.
C28_ExpansionKeepsTheState ==
  /\ [][ pc = "solve" /\ pc' = "solve" =>
           \A i \in Kept : stack'[i].state = stack[i].state ]_vars
  /\ [](pc = "solve" =>
          \A i \in 1..(Len(stack) - 1) :
            stack[i].at = "mcall" => stack[i + 1].state = stack[i].state)
  /\ [][ (pc = "solve" /\ pc' = "solve" /\ stack # <<>>) =>
           \A i \in 1..Len(NewCalls) :
             NewCalls[i].kind = "method" =>
               /\ Top.at = "methods"
               /\ NewCalls[i].arg = Top.state ]_vars

\* The second method of a compound task is examined after a backtrack over
\* a first method that applied an operator, in an activation entered with a
\* state other than the initial state and with the state its first method
\* was tried on.
C28_Witness ==
  /\ pc = "solve"
  /\ stack # <<>>
  /\ Top.at = "methods"
  /\ Top.mi = 2
  /\ Top.failed = {1}
  /\ Top.state # initialState
  /\ \E i \in 1..Len(calls) :
       /\ calls[i] = CondCall("method", Methods(Top)[1].name, Top.state)
       /\ \E j \in (i + 1)..Len(calls) : calls[j].fn = "effect"

\* The search of a tried method has returned null to the activation that
\* tried it, because of a failure that arose when no more tasks were pending
\* than had followed the compound task: the method's own subtasks had all
\* succeeded.
LateFailure ==
  /\ pc = "solve"
  /\ stack # <<>>
  /\ Top.at = "mcall"
  /\ ret.kind = "null"
  /\ ret.pending <= Len(Rest(Top))

\* C29: a tried method is rejected also when a task that followed the
\* compound task in the queue fails after the method's subtasks have all
\* succeeded: the activation of the compound task then goes on to its next
\* method, with the task list and the state it was entered with and the
\* accumulator rewound.
C29_LaterFailureRejectsTheMethod ==
  [][ LateFailure =>
        /\ Len(stack') = Len(stack)
        /\ stack'[Len(stack')].at = "methods"
        /\ stack'[Len(stack')].mi = Top.mi + 1
        /\ Top.mi \in stack'[Len(stack')].failed
        /\ stack'[Len(stack')].tasks = Top.tasks
        /\ stack'[Len(stack')].state = Top.state
        /\ plan' = Top.held
        /\ ret'.kind = "none" ]_vars

\* The first method of the first of two goals is being rejected because the
\* second goal failed; planned alone, the first goal is solved by that
\* method, and the two goals are solved by a plan that does not start with
\* the plan of the first goal alone.
C29_Witness ==
  /\ LateFailure
  /\ Len(goals) = 2
  /\ Top.depth = 0
  /\ Top.tasks = goals
  /\ Top.mi = 1
  /\ Top.failed = {}
  /\ LET alone == ChoicePlans(<<goals[1]>>, initialState, 0)
         both == ChoicePlans(goals, initialState, 0)
     IN /\ alone # <<>>
        /\ both # <<>>
        /\ Len(both[1]) >= Len(alone[1])
        /\ SubSeq(both[1], 1, Len(alone[1])) # alone[1]

\* An activation of solve() has been entered and has not run yet.
Entered ==
  /\ pc = "solve"
  /\ stack # <<>>
  /\ Top.at = "entry"
  /\ ret.kind = "none"

\* No compound task is reachable from its own methods' subtasks.
Acyclic ==
  \A n \in DOMAIN domain.compoundTasks : n \notin ReachableFrom(SubtaskNames(n))

\* For an acyclic domain: the depth at which the queue is empty on the
\* first successful choice of methods in depth-first order when no ceiling
\* is applied and no pre-check made, -1 when no choice succeeds; a name in
\* neither table fails its branch (line 141).
RECURSIVE SolutionDepth(_, _, _), MethodSolutionDepth(_, _, _, _)
SolutionDepth(ts, s, d) ==
  IF ts = <<>> THEN d
  ELSE IF Head(ts) \in DOMAIN domain.operators
    THEN IF condition(domain.operators[Head(ts)].condition, s)
           THEN SolutionDepth(Tail(ts),
                              effect(domain.operators[Head(ts)].effect, s),
                              d + 1)
           ELSE -1
  ELSE IF Head(ts) \notin DOMAIN domain.compoundTasks THEN -1
  ELSE MethodSolutionDepth(ts, s, d, 1)
MethodSolutionDepth(ts, s, d, i) ==
  LET ms == domain.compoundTasks[Head(ts)].methods IN
  IF i > Len(ms) THEN -1
  ELSE LET here == IF condition(ms[i].condition, s)
                     THEN SolutionDepth(ms[i].subtasks \o Tail(ts), s, d + 1)
                     ELSE -1
       IN IF here # -1 THEN here ELSE MethodSolutionDepth(ts, s, d, i + 1)

\* C30: the depth ceiling is tested first and is strict.  An activation
\* entered at a depth up to the ceiling, the ceiling itself included, runs:
\* nothing is raised and, when its queue is empty, it returns the plan; an
\* activation entered one above the ceiling raises PlannerMaxDepthError even
\* when its queue is empty.  Hence a problem over an acyclic domain whose
\* first solution in depth-first order takes more steps than the ceiling
\* ends with the error, not with its plan.
C30_CeilingIsStrictAndTestedFirst ==
  /\ [][ (Entered /\ Top.depth <= MAX_RECURSION_DEPTH) =>
           /\ pc' = "solve"
           /\ result' = result
           /\ Top.tasks = <<>> => ret' = Solved(plan, Top.state) ]_vars
  /\ [][ (Entered /\ Top.depth = MAX_RECURSION_DEPTH + 1) =>
           /\ result' = PlannerMaxDepthError
           /\ pc' = "done"
           /\ ret' = ret ]_vars
  /\ []((Done /\ Acyclic /\ Reachable \subseteq Registered
              /\ SolutionDepth(goals, initialState, 0) > MAX_RECURSION_DEPTH)
          => Threw)

\* An activation has been entered one above the ceiling with an empty
\* queue: every task of an acyclic, solvable problem has been carried out,
\* in one step more than the ceiling allows.
C30_Witness ==
  /\ Entered
  /\ Top.depth = MAX_RECURSION_DEPTH + 1
  /\ Top.tasks = <<>>
  /\ Acyclic
  /\ SolutionDepth(goals, initialState, 0) = MAX_RECURSION_DEPTH + 1

\* The method expansions on the branch of the i-th activation: the
\* activations below it that wait for the search of a method they tried.
Expansions(i) == Cardinality({j \in 1..(i - 1) : stack[j].at = "mcall"})

\* C31: in every activation of solve(), the depth is the number of operators
\* in the accumulator plus the number of method expansions on the current
\* branch; the depth onTaskExpand reports for a task is therefore the number
\* of operator applications and method expansions before it on its branch.
C31_DepthCountsApplicationsAndExpansions ==
  /\ [](pc = "solve" =>
          /\ \A i \in 1..Len(stack) :
               stack[i].depth = Len(stack[i].held) + Expansions(i)
          /\ (stack # <<>> /\ Top.at \in {"entry", "methods"}) =>
               Top.depth = Len(plan) + Expansions(Len(stack)))
  /\ [][ Dequeues =>
           /\ NewLog # <<>>
           /\ NewLog[1] =
                HookEntry(<<"onTaskExpand", Head(Top.tasks),
                            Len(plan) + Expansions(Len(stack))>>) ]_vars

\* A task is about to be dequeued after one operator application and two
\* method expansions on its branch, and after a rewound branch.
C31_Witness ==
  /\ Dequeues
  /\ Len(plan) = 1
  /\ Expansions(Len(stack)) = 2
  /\ Top.depth = 3
  /\ rejected # {}

\* C32: once the pre-check has passed, every name in the pending queue of
\* every activation of solve() is an operator or a compound task, so the
\* unknown-task branch of line 141 is never taken by a plan() run.
C32_SearchMeetsRegisteredNamesOnly ==
  pc = "solve" =>
    /\ \A i \in 1..Len(stack) : Range(stack[i].tasks) \subseteq Registered
    /\ ~(/\ Entered
         /\ Top.depth <= MAX_RECURSION_DEPTH
         /\ Top.tasks # <<>>
         /\ ~hasOwnTask(domain.operators, Current(Top))
         /\ ~hasOwnTask(domain.compoundTasks, Current(Top)))

\* The search is under way on the subtasks of a second method, two
\* expansions deep and after a failed branch, in a domain with two compound
\* tasks.
C32_Witness ==
  /\ Entered
  /\ Top.tasks # <<>>
  /\ Expansions(Len(stack)) = 2
  /\ nullReturns > 0
  /\ DOMAIN domain.compoundTasks = {"T", "U"}
  /\ \E i \in 1..Len(stack) : stack[i].at = "mcall" /\ stack[i].mi = 2

(***************************************************************************)
(* Termination.  plan() is one synchronous call (lines 161-216): once it   *)
(* has been called, the loop of findFirstUnknownTask and the activations   *)
(* of solve() run to their end without waiting for anything, so every step *)
(* of a call that can be taken is taken.  Whether the caller plans again   *)
(* is up to the caller.  The runs start from the state 0; the effects     *)
(* lead to the other states.                                               *)
(***************************************************************************)
InitFair == Init /\ initialState = 0

Running ==
  \/ PreCheckStep
  \/ PreCheckDone
  \/ SolveEntry
  \/ MethodLoop
  \/ OperatorReturn
  \/ MethodReturn
  \/ PlanReturn

SpecFair == InitFair /\ [][Next]_vars /\ WF_vars(Running)

\* An iteration of the pre-check's loop that reaches lines 48-55 with a
\* compound task: its subtasks are pushed on the queue.
ExpandsSubtasks ==
  /\ pc = "precheck"
  /\ queue # <<>>
  /\ hasOwnTask(domain.compoundTasks, Head(queue))
  /\ ~hasOwnTask(domain.operators, Head(queue))
  /\ queue' = Enqueue(Tail(queue), domain.compoundTasks[Head(queue)].methods)

\* C33: the pre-check ends on every domain, cyclic ones included, and pushes
\* the subtasks of a task name at most once: only of a name not yet visited,
\* which is visited from then on.
C33_PreCheckTerminatesExpandingOnce ==
  /\ (pc = "precheck") ~> (pc \in {"solve", "done"})
  /\ [][ (pc = "precheck" /\ queue # <<>>) =>
           /\ visited \subseteq visited'
           /\ queue' # Tail(queue) =>
                /\ ExpandsSubtasks
                /\ Head(queue) \notin visited
                /\ Head(queue) \in visited'
           /\ Head(queue) \in visited =>
                /\ queue' = Tail(queue)
                /\ UNCHANGED <<visited, pc, result>> ]_vars

\* The pre-check dequeues, in a cyclic domain, a compound task it has
\* expanded before, and skips it.
C33_Witness ==
  /\ pc = "precheck"
  /\ ~Acyclic
  /\ queue # <<>>
  /\ Head(queue) \in visited
  /\ hasOwnTask(domain.compoundTasks, Head(queue))
  /\ ~hasOwnTask(domain.operators, Head(queue))

\* C34: the pre-check is structural.  When a name registered nowhere is
\* reachable from the goals through the subtask lists, plan() returns
\* UNKNOWN_TASK without evaluating a condition, also when the only methods
\* that mention the name are inapplicable wherever they are tried and the
\* search alone would have returned a complete plan.
C34_PreCheckIsStructural ==
  (/\ Done
   /\ Acyclic
   /\ ~(Reachable \subseteq Registered)
   /\ SolutionDepth(goals, initialState, 0) \in 0..MAX_RECURSION_DEPTH) =>
     /\ UnknownTask
     /\ result.failedTask \in Reachable \ Registered
     /\ result.plan = <<>>
     /\ calls = <<>>

\* "x" is a subtask of the first method of "T" only, whose condition is
\* false in the one state in which "T" is expanded; the second method
\* alone solves the goal, and plan() has returned UNKNOWN_TASK for "x".
C34_Witness ==
  /\ UnknownTask
  /\ result.failedTask = "x"
  /\ goals = <<"T">>
  /\ initialState = 1
  /\ Acyclic
  /\ Len(domain.compoundTasks["T"].methods) = 2
  /\ domain.compoundTasks["T"].methods[1].condition = "zero"
  /\ "x" \in Range(domain.compoundTasks["T"].methods[1].subtasks)
  /\ \A n \in DOMAIN domain.compoundTasks \ {"T"} : "x" \notin SubtaskNames(n)
  /\ SolutionDepth(goals, initialState, 0) \in 1..MAX_RECURSION_DEPTH

\* The names the caller has registered: the operator names and the task
\* names passed to registerOperator and registerMethod.
NamesUsed == OperatorNamesUsed \cup TaskNamesUsed

\* C35: the pre-check of plan() is never stricter than validate().  On a
\* registry for which validate() returned the registry, plan() over goals
\* that are all registered names does not return UNKNOWN_TASK; and when
\* plan() returns UNKNOWN_TASK with a name that is not a goal, validate()
\* on the same registry raised DomainValidationError.
C35_PreCheckNotStricterThanValidate ==
  (Planning /\ Done) =>
    /\ (returned.kind = "this" /\ Range(goals) \subseteq NamesUsed) =>
         ~UnknownTask
    /\ (UnknownTask /\ result.failedTask \notin Range(goals)) =>
         returned.kind = "DomainValidationError"

\* The same over the goals that are own keys of the two tables, which is
\* what every registered name other than "__proto__" is.
C35_GoalsAmongTheKeys ==
  (Planning /\ Done) =>
    /\ (returned.kind = "this" /\ \A n \in Range(goals) : OwnKey(n)) =>
         ~UnknownTask
    /\ (UnknownTask /\ result.failedTask \notin Range(goals)) =>
         returned.kind = "DomainValidationError"
    /\ (Range(goals) \subseteq NamesUsed \ {"__proto__"}) =>
         \A n \in Range(goals) : OwnKey(n)

\* C36: every plan() call ends, by returning a PlanningResult or by raising
\* the max-depth error, in cyclic domains too; the call stack of the search
\* never holds more activations than the ceiling allows, one per depth from
\* 0 to MAX_RECURSION_DEPTH + 1.
C36_PlanTerminates ==
  /\ (pc \in {"precheck", "solve"}) ~>
       (Done /\ result.kind \in {"success", "failure", "PlannerMaxDepthError"})
  /\ [](/\ Len(stack) <= MAX_RECURSION_DEPTH + 2
        /\ \A i \in 1..Len(stack) : stack[i].depth = i - 1)

\* A call over a cyclic domain has returned a plan after a failed branch,
\* and the call before it on the same planner ended too.
C36_Witness ==
  /\ Succeeded
  /\ ~Acyclic
  /\ nullReturns > 0
  /\ result.plan # <<>>
  /\ prevResult.kind = "success"

\* The operator names onOperatorApply was notified of, in order.
Notified == [i \in 1..Len(OperatorApplies) |-> OperatorApplies[i][2]]

\* The returned plan is the notified sequence without the rewound
\* applications: entry i of the plan is the notification numbered stamps[i],
\* the numbers increase, and they are the numbers of the applications that
\* were never rewound.
PlanIsNotifiedWithoutRewound ==
  /\ Len(result.plan) = Len(stamps)
  /\ \A i \in 1..Len(stamps) :
       /\ stamps[i] \in 1..Len(Notified)
       /\ result.plan[i].name = Notified[stamps[i]]
       /\ i > 1 => stamps[i - 1] < stamps[i]
  /\ Range(stamps) = (1..Len(Notified)) \ rejected

\* C37 as claimed: in a successful run the returned plan is the sequence of
\* onOperatorApply notifications without the applications of rewound
\* branches, a non-empty plan ends with the last notified operator, and the
\* plan is the whole notified sequence exactly when no application was
\* rewound.
C37_PlanEndsWithLastNotified ==
  Succeeded =>
    /\ PlanIsNotifiedWithoutRewound
    /\ result.plan # <<>> =>
         result.plan[Len(result.plan)].name = Notified[Len(Notified)]
    /\ NamesOf(result.plan) = Notified <=> rejected = {}

\* C37, amended: in a successful run the returned plan is the sequence of
\* onOperatorApply notifications without the applications of rewound
\* branches; it ends with the last notified operator when that last
\* application was not rewound, and otherwise with the last application
\* that was not, or is empty; it is the whole notified sequence exactly when
\* no application was rewound.
C37_PlanIsNotifiedMinusRewound ==
  Succeeded =>
    /\ PlanIsNotifiedWithoutRewound
    /\ (Notified # <<>> /\ Len(Notified) \notin rejected) =>
         /\ result.plan # <<>>
         /\ stamps[Len(stamps)] = Len(Notified)
         /\ result.plan[Len(result.plan)].name = Notified[Len(Notified)]
    /\ (Notified # <<>> /\ Len(Notified) \in rejected) =>
         \/ result.plan = <<>>
         \/ stamps[Len(stamps)] < Len(Notified)
    /\ NamesOf(result.plan) = Notified <=> rejected = {}

\* A plan of one operator has been returned after a later application,
\* of another operator, was rewound: the plan ends with "b", the
\* notifications end with "a".
C37_Witness ==
  /\ Succeeded
  /\ NamesOf(result.plan) = <<"b">>
  /\ Notified = <<"b", "a">>
  /\ rejected = {2}

\* plan() is about to return OPERATOR_PRECONDITION_FAILED: the search is
\* over and the diagnosis names a goal.
ReportsPreconditionFailed ==
  /\ pc = "solve"
  /\ pc' = "done"
  /\ result'.kind = "failure"
  /\ result'.reason = "OPERATOR_PRECONDITION_FAILED"

\* The search evaluated the precondition of operator n to false.
FoundFalse(n) ==
  \E i \in 1..Len(calls) :
    /\ calls[i].fn = "condition"
    /\ calls[i].kind = "operator"
    /\ calls[i].of = n
    /\ ~condition(domain.operators[n].condition, calls[i].arg)

C38_NamedGoalFailsInInitialState ==
  [][ ReportsPreconditionFailed =>
        LET T == result'.failedTask IN
        /\ ret.kind = "null"
        /\ T \in Range(goals)
        /\ hasOwnTask(domain.operators, T)
        /\ ~condition(domain.operators[T].condition, initialState)
        /\ T = goals[1] =>
             /\ calls = <<CondCall("operator", T, initialState)>>
             /\ trace = <<<<"onTaskExpand", T, 0>>>>
             /\ FoundFalse(T) ]_vars

\* plan() has named the second goal "b" although the search failed inside
\* the first goal and never evaluated b's precondition: the one call of it
\* is the diagnosis's.
C38_NamedGoalNeverDequeued ==
  /\ Failed
  /\ result.reason = "OPERATOR_PRECONDITION_FAILED"
  /\ result.failedTask = "b"
  /\ goals = <<"T", "b">>
  /\ Cardinality({i \in 1..Len(calls) : calls[i].of = "b"}) = 1
  /\ calls[Len(calls)] = CondCall("operator", "b", initialState)
  /\ nullReturns > 0

\* No table of the registry has the empty name among its own keys and no
\* method list holds a method with the empty name.
NoEmptyName ==
  /\ ~hasOwnProperty(registry.operators, "")
  /\ ~hasOwnProperty(registry.compoundTasks, "")
  /\ ~hasOwnProperty(registry._compoundMethods, "")
  /\ \A i \in 1..Len(registry.arrays) :
       \A k \in 1..Len(registry.arrays[i]) : registry.arrays[i][k].name # ""
  /\ "" \notin DOMAIN domain.operators \cup DOMAIN domain.compoundTasks

\* C39: registerOperator with an empty operator name, and registerMethod
\* with an empty task name or an empty method name, raise TypeError and
\* leave the registry as it was: no operator is stored, no compound task
\* entry is created and no method is appended.  A call that returned the
\* registry had no empty name, and the calls that did are the ones recorded.
C39_EmptyNamesAreRefused ==
  /\ [](NoEmptyName)
  /\ [][ returned'.kind = "TypeError" =>
           /\ registry' = registry
           /\ registered' = registered
           /\ domain' = domain ]_vars
  /\ [](returned.call \in {"registerOperator", "registerMethod"} =>
          /\ returned.kind \in {"this", "TypeError"}
          /\ returned.kind = "this" =>
               /\ returned.arg # ""
               /\ registered # <<>>
               /\ registered[Len(registered)].call = returned.call)
  /\ [](\A i \in 1..Len(registered) :
          IF registered[i].call = "registerOperator"
            THEN registered[i].operator.name # ""
            ELSE registered[i].taskName # "" /\ registered[i].method.name # "")

\* registerMethod("T", m) with a method of the empty name has raised
\* TypeError on a registry that holds an operator and no compound task.
C39_Witness ==
  /\ returned.kind = "TypeError"
  /\ returned.call = "registerMethod"
  /\ returned.arg = "T"
  /\ hasOwnProperty(registry.operators, "a")
  /\ ~hasOwnProperty(registry.compoundTasks, "T")
  /\ registry.arrays = <<>>

=============================================================================
